---- MODULE Spec2Model ----
(***************************************************************************)
(* Attestation pipeline of the validator agent: RunWSValidator / runOnce   *)
(* (src/internal/attest/ws.go) driving the decoder, the block identity     *)
(* resolver, the receipts-root resolver, the canonical encoder, the BLS    *)
(* adapter and SubmitVerification (src/unnamed/part_000, package attest).  *)
(*                                                                         *)
(* The Runner is one goroutine; pc is its position.  The transport, the    *)
(* execution layer, the submission endpoint, the clock and the caller's    *)
(* context are the environment: their answers are chosen with \E.          *)
(***************************************************************************)
EXTENDS Integers, Sequences, FiniteSets, TLC

(***************************************************************************)
(* Bounds of the model.                                                    *)
(***************************************************************************)
MaxBlock == 1          \* execution-layer blocks are numbered 0..MaxBlock
MaxCommittee == 1      \* committee_index ranges over 0..MaxCommittee
MaxTx == 1             \* longest body.transactions list of a push
MaxTimeoutTicks == 1   \* longest timeout a wait is called with, in ticks
MaxIntervalTicks == 2  \* longest poll interval a wait is called with, in ticks
MaxListed == 2         \* longest transaction list an eth_getBlockByHash answer carries
MaxPushes == 2         \* pushes delivered by the transport over the whole run
MaxCfgRetry == 1       \* cfg.RetryMax ranges over 0..MaxCfgRetry
WaitBlockTicks == 1    \* waitBlockTimeout, counted in poll intervals
WaitReceiptTicks == 1  \* waitReceiptTimeout, counted in poll intervals
UintBits == 5          \* width of uint64 in the model
RootDigits == 2        \* hexadecimal digits of a hash in the model
KeyBytes == 2          \* bytes of a BLS secret key in the model
AddrBytes == 2         \* bytes of an execution address in the model (20 in the code)

(***************************************************************************)
(* Program constants.                                                      *)
(***************************************************************************)
DefaultRetryMax == 5
ZeroHash == 0

(***************************************************************************)
(* The execution layer's chain: block n has hash BlockHash(n) and n        *)
(* transactions; UnknownHash is a well-formed hash of no block.            *)
(***************************************************************************)
Numbers == 0..MaxBlock
BlockHash(n) == n + 1
KnownHashes == {BlockHash(n) : n \in Numbers}
UnknownHash == MaxBlock + 2
NumberOfHash(h) == h - 1
BlockTxs(h) == [i \in 1..NumberOfHash(h) |-> [block |-> h, index |-> i]]

(***************************************************************************)
(* Numbers as JSON.  A raw number field is [k, s]: k = "absent" (no field), *)
(* "str" (a JSON string, s its characters), "bare" (a JSON number literal,  *)
(* s its characters) or "other" (true, an object, an array).  uint64 is    *)
(* UintBits wide here.                                                     *)
(***************************************************************************)
UintLimit == 2 ^ UintBits
Uints == 0..(UintLimit - 1)
HexChars == <<"0", "1", "2", "3", "4", "5", "6", "7", "8", "9", "a", "b", "c", "d", "e", "f">>
DecChars == SubSeq(HexChars, 1, 10)
Range(f) == {f[i] : i \in DOMAIN f}
DigitVal(c) == CHOOSE d \in 0..15 : HexChars[d + 1] = c

\* The digits of n in a base, most significant first, as fmt's %x and %d print them.
RECURSIVE Digits(_, _)
Digits(n, base) ==
  IF n < base THEN <<HexChars[n + 1]>>
  ELSE Append(Digits(n \div base, base), HexChars[(n % base) + 1])

\* The value of a digit string in a base (exact: big.Int and ParseUint before
\* its range test).
RECURSIVE ValueOf(_, _)
ValueOf(s, base) ==
  IF s = <<>> THEN 0
  ELSE ValueOf(SubSeq(s, 1, Len(s) - 1), base) * base + DigitVal(s[Len(s)])

NumAbsent == [k |-> "absent", s |-> <<>>]
NotANumber == [k |-> "other", s |-> <<>>]
QuotedHex(n) == [k |-> "str", s |-> <<"0", "x">> \o Digits(n, 16)]
QuotedDec(n) == [k |-> "str", s |-> Digits(n, 10)]
BareNumber(n) == [k |-> "bare", s |-> Digits(n, 10)]

\* strings.TrimSpace.
RECURSIVE TrimSpace(_)
TrimSpace(s) ==
  IF s = <<>> THEN s
  ELSE IF s[1] = " " THEN TrimSpace(Tail(s))
  ELSE IF s[Len(s)] = " " THEN TrimSpace(SubSeq(s, 1, Len(s) - 1))
  ELSE s

\* strconv.ParseUint(s, 10, 64): digits only, and the value must fit.
ParseUint(s) ==
  IF s # <<>> /\ Range(s) \subseteq Range(DecChars) /\ ValueOf(s, 10) < UintLimit
    THEN [ok |-> TRUE, v |-> ValueOf(s, 10)]
    ELSE [ok |-> FALSE, v |-> 0]

\* new(big.Int).SetString(s, 16) then Uint64(): an optional sign, one hex digit
\* at least; Uint64 gives the low bits of the absolute value.
BigHexUint64(s) ==
  LET d == IF s # <<>> /\ s[1] \in {"+", "-"} THEN Tail(s) ELSE s
  IN IF d # <<>> /\ Range(d) \subseteq Range(HexChars)
       THEN [ok |-> TRUE, v |-> ValueOf(d, 16) % UintLimit]
       ELSE [ok |-> FALSE, v |-> 0]

\* Variant: the 0x prefix is not looked at, every string is read as decimal.
parseUint64JSON_NoHex(r) ==
  IF r.k = "absent" THEN [ok |-> FALSE, v |-> 0]
  ELSE IF r.k = "str" THEN ParseUint(TrimSpace(r.s))
  ELSE IF r.k = "bare" THEN ParseUint(r.s)
  ELSE [ok |-> FALSE, v |-> 0]

\* parseUint64JSON: nil; a JSON string (0x/0X hex, else decimal); a number that
\* unmarshals into uint64; a json.Number (the same literal through ParseUint).
parseUint64JSON(r) ==
  IF r.k = "absent" THEN [ok |-> FALSE, v |-> 0]
  ELSE IF r.k = "str"
    THEN LET s == TrimSpace(r.s)
         IN IF s = <<>> THEN [ok |-> FALSE, v |-> 0]
            ELSE IF Len(s) >= 2 /\ s[1] = "0" /\ s[2] \in {"x", "X"}
              THEN BigHexUint64(SubSeq(s, 3, Len(s)))
            ELSE ParseUint(s)
  ELSE IF r.k = "bare"
    THEN IF ParseUint(r.s).ok THEN ParseUint(r.s)
         ELSE [ok |-> FALSE, v |-> 0]
  ELSE [ok |-> FALSE, v |-> 0]

(***************************************************************************)
(* Values.  A JSON field is a record [k, v]: k tells what the field holds. *)
(***************************************************************************)
Absent == [k |-> "absent", v |-> 0]
NumFields ==
  {NumAbsent, NotANumber}
    \cup {QuotedHex(n) : n \in Numbers} \cup {QuotedDec(n) : n \in Numbers}
    \cup {BareNumber(n) : n \in Numbers}
\* "bad": not 66 characters or no 0x prefix.  "nonhex": 0x and 64 characters that
\* are not all hexadecimal digits; v is the hash its leading digits decode to.
HashFields ==
  {Absent, [k |-> "bad", v |-> 0]}
    \cup {[k |-> "nonhex", v |-> h] : h \in {ZeroHash, UnknownHash}}
    \cup {[k |-> "hash", v |-> h] : h \in {ZeroHash, UnknownHash} \cup KnownHashes}
BadHeader ==
  [kind |-> "bad", aNum |-> NumAbsent, aHash |-> Absent, bNum |-> NumAbsent, bHash |-> Absent]
Headers ==
  {BadHeader} \cup
  [kind : {"obj"}, aNum : NumFields, aHash : HashFields, bNum : NumFields, bHash : HashFields]
\* The body of a push: absent, not an object (or transactions no array), an
\* object without transactions, or one with a list of v transactions.
Bodies ==
  {Absent, [k |-> "bad", v |-> 0], [k |-> "notx", v |-> 0]}
    \cup {[k |-> "list", v |-> n] : n \in 0..MaxTx}
Committees == 0..MaxCommittee
CfgRetryMaxValues == (-1)..MaxCfgRetry

ZeroRoot == [zero |-> TRUE, trie |-> <<>>]
EmptyTrieRoot == [zero |-> FALSE, trie |-> <<>>]
\* types.DeriveSha over types.Receipts: the trie of the receipts' consensus
\* encodings (status, cumulative gas, bloom, logs), keyed by position.
DeriveSha(receipts) ==
  [zero |-> FALSE,
   trie |-> [i \in DOMAIN receipts |->
               <<receipts[i].Status, receipts[i].CumulativeGasUsed, receipts[i].Bloom,
                 receipts[i].Logs>>]]

NoPush == [id |-> 0, conn |-> 0, src |-> "none", num |-> 0, hash |-> ZeroHash, cidx |-> 0, tx |-> 0]
NoAtt == [slot |-> 0, committee_index |-> 0, receipts_root |-> ZeroRoot]
NoSig == [signer |-> <<>>, msg |-> <<>>]
NoSub ==
  [push |-> 0, readOn |-> 0, sentOn |-> 0, att |-> NoAtt, hash |-> ZeroHash,
   sig |-> NoSig, pk |-> [hex |-> [of |-> <<>>]]]

(***************************************************************************)
(* Pure functions of the pipeline.                                         *)
(***************************************************************************)

\* strings.HasPrefix(h, "0x") && len(h) == 66: the digits are not looked at.
HashAccepted(f) == f.k \in {"hash", "nonhex"}

\* common.HexToHash: the bytes hex.DecodeString decoded before its first error,
\* right-aligned.
HexToHash(f) == IF f.k \in {"hash", "nonhex"} THEN f.v ELSE ZeroHash

NoIdentity == [ok |-> FALSE, slot |-> 0, hash |-> ZeroHash, src |-> "none"]

\* Variant: the hash of a shape is looked at before its number.
DecodeShape_HashFirst(num, hsh) ==
  IF hsh.k # "absent" /\ HashAccepted(hsh)
    THEN [ok |-> TRUE, slot |-> 0, hash |-> HexToHash(hsh), src |-> "hash"]
  ELSE IF num.k # "absent" /\ parseUint64JSON(num).ok
    THEN [ok |-> TRUE, slot |-> parseUint64JSON(num).v, hash |-> ZeroHash, src |-> "number"]
  ELSE NoIdentity

\* One header shape: the number first, the hash only when the number gave nothing.
DecodeShape(num, hsh) ==
  IF num.k # "absent" /\ parseUint64JSON(num).ok
    THEN [ok |-> TRUE, slot |-> parseUint64JSON(num).v, hash |-> ZeroHash, src |-> "number"]
  ELSE IF hsh.k # "absent" /\ HashAccepted(hsh)
    THEN [ok |-> TRUE, slot |-> 0, hash |-> HexToHash(hsh), src |-> "hash"]
  ELSE NoIdentity

\* Variant: the number is looked for in both shapes before any hash is.
DecodeHeader_NumberFirst(h) ==
  IF h.kind # "obj" THEN NoIdentity
  ELSE IF DecodeShape(h.aNum, Absent).ok THEN DecodeShape(h.aNum, Absent)
  ELSE IF DecodeShape(h.bNum, Absent).ok THEN DecodeShape(h.bNum, Absent)
  ELSE IF DecodeShape(NumAbsent, h.aHash).ok THEN DecodeShape(NumAbsent, h.aHash)
  ELSE DecodeShape(NumAbsent, h.bHash)

\* Shape A ({header:{number,hash}}), then shape B ({number,hash}).
DecodeHeader(h) ==
  IF h.kind # "obj" THEN NoIdentity
  ELSE IF DecodeShape(h.aNum, h.aHash).ok THEN DecodeShape(h.aNum, h.aHash)
  ELSE DecodeShape(h.bNum, h.bHash)

\* The log lines of one header shape (lines 252-266 and 275-289): a number
\* that is there and does not parse, a hash that is looked at and refused.
ShapeLog(num, hsh, shape) ==
  (IF num.k # "absent" /\ ~parseUint64JSON(num).ok
     THEN <<[line |-> "number parse fail", shape |-> shape]>> ELSE <<>>)
  \o (IF ~DecodeShape(num, Absent).ok /\ hsh.k # "absent" /\ ~HashAccepted(hsh)
        THEN <<[line |-> "hash invalid", shape |-> shape]>> ELSE <<>>)

\* The log lines of lines 247-298 for a header.
HeaderLog(h) ==
  IF h.kind # "obj" THEN <<[line |-> "insufficient fields", shape |-> "none"]>>
  ELSE ShapeLog(h.aNum, h.aHash, "A")
       \o (IF DecodeShape(h.aNum, h.aHash).ok THEN <<>> ELSE ShapeLog(h.bNum, h.bHash, "B"))
       \o (IF DecodeHeader(h).ok THEN <<>>
           ELSE <<[line |-> "insufficient fields", shape |-> "none"]>>)

\* len(bm.Transactions) when the body is present and decodes, else 0.
TxCountOf(b) == IF b.k = "list" THEN b.v ELSE 0

\* Variant: slot and committee index change places.
BuildAttestationData_Swapped(s, c, r) ==
  [slot |-> c, committee_index |-> s, receipts_root |-> r]

BuildAttestationData(s, c, r) == [slot |-> s, committee_index |-> c, receipts_root |-> r]

(***************************************************************************)
(* Receipts.  A field of the receipt JSON is [k, v]: k = "absent", "bad"   *)
(* (not of the expected JSON type or form) or "val".                       *)
(***************************************************************************)
FieldAbsent == [k |-> "absent", v |-> 0]
FieldBad == [k |-> "bad", v |-> 0]
Val(x) == [k |-> "val", v |-> x]
ZeroBloom == 0
ZeroAddress == 0
\* The all-zero transaction hash.
NoTx == [block |-> 0, index |-> 0]

\* A nil map: what CallContext leaves in raw when the answer is null.
NilReceiptJSON ==
  [status |-> FieldAbsent, cumulativeGasUsed |-> FieldAbsent, logs |-> FieldAbsent,
   logsBloom |-> FieldAbsent, transactionHash |-> FieldAbsent, blockHash |-> FieldAbsent,
   contractAddress |-> FieldAbsent]

\* The receipt the execution layer serves for a transaction once it is indexed.
ReceiptJSON(tx) ==
  [status |-> Val(1), cumulativeGasUsed |-> Val(tx.index), logs |-> Val(<<>>),
   logsBloom |-> Val(ZeroBloom), transactionHash |-> Val(tx), blockHash |-> Val(tx.block),
   contractAddress |-> FieldAbsent]

\* Lines 390-412: an entry of logs that is no object gives an empty Log.
DecodeLog(l) == IF l = "junk" THEN "emptylog" ELSE l

\* Variant: a receipt without status is an error.
decodeGethReceiptFromRPC_StatusRequired(raw) ==
  [ok |-> raw.status.k = "val",
   Status |-> IF raw.status.k = "val" THEN raw.status.v ELSE 0,
   CumulativeGasUsed |->
     IF raw.cumulativeGasUsed.k = "val" THEN raw.cumulativeGasUsed.v ELSE 0,
   Logs |-> IF raw.logs.k = "val"
              THEN [i \in DOMAIN raw.logs.v |-> DecodeLog(raw.logs.v[i])] ELSE <<>>,
   Bloom |-> IF raw.logsBloom.k = "val" THEN raw.logsBloom.v ELSE ZeroBloom,
   TxHash |-> IF raw.transactionHash.k = "val" THEN raw.transactionHash.v ELSE NoTx,
   BlockHash |-> IF raw.blockHash.k = "val" THEN raw.blockHash.v ELSE ZeroHash,
   ContractAddress |->
     IF raw.contractAddress.k = "val" THEN raw.contractAddress.v ELSE ZeroAddress]

\* decodeGethReceiptFromRPC: status starts at 1, everything else at zero; a field
\* is taken only when it has the expected form; the error is always nil.
decodeGethReceiptFromRPC(raw) ==
  [ok |-> TRUE,
   Status |-> IF raw.status.k = "val" THEN raw.status.v ELSE 1,
   CumulativeGasUsed |->
     IF raw.cumulativeGasUsed.k = "val" THEN raw.cumulativeGasUsed.v ELSE 0,
   Logs |-> IF raw.logs.k = "val"
              THEN [i \in DOMAIN raw.logs.v |-> DecodeLog(raw.logs.v[i])] ELSE <<>>,
   Bloom |-> IF raw.logsBloom.k = "val" THEN raw.logsBloom.v ELSE ZeroBloom,
   TxHash |-> IF raw.transactionHash.k = "val" THEN raw.transactionHash.v ELSE NoTx,
   BlockHash |-> IF raw.blockHash.k = "val" THEN raw.blockHash.v ELSE ZeroHash,
   ContractAddress |->
     IF raw.contractAddress.k = "val" THEN raw.contractAddress.v ELSE ZeroAddress]

\* Answers of the execution layer.  To eth_getBlockByHash: an error, null (the
\* block is not known yet) or the block with its transaction list.  To
\* eth_getTransactionReceipt: an error, null (not indexed yet) or the receipt.
RpcError == [k |-> "err"]
RpcNull == [k |-> "null"]
BlockAnswer(txs) == [k |-> "block", txs |-> txs]
ReceiptAnswer(raw) == [k |-> "json", raw |-> raw]
\* An entry of block.transactions: a 0x string naming a transaction, or anything else.
TxEntry(tx) == [k |-> "hash", tx |-> tx]
JunkEntry == [k |-> "junk", tx |-> NoTx]
NoRoot == [ok |-> FALSE, root |-> ZeroRoot, receipts |-> <<>>]

\* Lines 319-334: one receipt per entry of txs, in order.  A null answer leaves
\* raw a nil map and is no error.
RECURSIVE FetchReceipts(_, _, _)
FetchReceipts(txs, answers, receipts) ==
  IF txs = <<>> THEN [ok |-> TRUE, receipts |-> receipts]
  ELSE IF Head(txs).k = "junk" THEN [ok |-> FALSE, receipts |-> <<>>]
  ELSE IF answers[Head(txs).tx].k = "err" THEN [ok |-> FALSE, receipts |-> <<>>]
  ELSE LET raw == IF answers[Head(txs).tx].k = "null" THEN NilReceiptJSON
                  ELSE answers[Head(txs).tx].raw
           rcpt == decodeGethReceiptFromRPC(raw)
       IN IF ~rcpt.ok THEN [ok |-> FALSE, receipts |-> <<>>]
          ELSE FetchReceipts(Tail(txs), answers, Append(receipts, rcpt))

\* Variant: the receipts are collected in reverse order.
ComputeReceiptsRootByHash_Reversed(block, answers) ==
  IF block.k # "block" THEN NoRoot
  ELSE LET f == FetchReceipts(block.txs, answers, <<>>)
           n == Len(f.receipts)
           r == [i \in 1..n |-> f.receipts[n + 1 - i]]
       IN IF f.ok THEN [ok |-> TRUE, root |-> DeriveSha(r), receipts |-> r]
          ELSE NoRoot

\* ComputeReceiptsRootByHash, given what the execution layer answers: a failed
\* call, or a null block (block["transactions"] is then no list), is an error.
ComputeReceiptsRootByHash(block, answers) ==
  IF block.k # "block" THEN NoRoot
  ELSE LET f == FetchReceipts(block.txs, answers, <<>>)
       IN IF f.ok
            THEN [ok |-> TRUE, root |-> DeriveSha(f.receipts), receipts |-> f.receipts]
            ELSE NoRoot

\* The receipts root in the header of block h.
ReceiptsRootOfBlock(h) ==
  DeriveSha([i \in DOMAIN BlockTxs(h) |-> decodeGethReceiptFromRPC(ReceiptJSON(BlockTxs(h)[i]))])

\* What the execution layer may answer about block h and about the receipts of
\* its transactions while ctx is not done.
AnswerKinds == {"err", "null", "json"}
AnswerOf(tx, kind) ==
  IF kind = "err" THEN RpcError
  ELSE IF kind = "null" THEN RpcNull
  ELSE ReceiptAnswer(ReceiptJSON(tx))
ReceiptAnswers(txs) == {[tx \in txs |-> AnswerOf(tx, c[tx])] : c \in [txs -> AnswerKinds]}
BlockAnswers(h) ==
  {RpcError, RpcNull}
    \cup (IF h \in KnownHashes
           THEN {BlockAnswer([i \in DOMAIN BlockTxs(h) |-> TxEntry(BlockTxs(h)[i])])}
           ELSE {})

Min(a, b) == IF a < b THEN a ELSE b

(***************************************************************************)
(* The canonical encoding.  A hash is RootDigits hexadecimal digits wide   *)
(* here; different roots have different bytes.                             *)
(***************************************************************************)
RECURSIVE SetToSeq(_)
SetToSeq(S) ==
  IF S = {} THEN <<>>
  ELSE LET x == CHOOSE y \in S : TRUE IN <<x>> \o SetToSeq(S \ {x})

\* The receipts roots runOnce can hold: the zero hash, the empty-trie constant
\* and what ComputeReceiptsRootByHash returns for a block of the chain.
RootValues ==
  {ZeroRoot, EmptyTrieRoot}
    \cup UNION {{ComputeReceiptsRootByHash(b, a).root :
                   b \in BlockAnswers(h), a \in ReceiptAnswers(Range(BlockTxs(h)))} :
                h \in KnownHashes}
\* The bytes of the roots, the zero hash first.
RootTable == <<ZeroRoot>> \o SetToSeq(RootValues \ {ZeroRoot})
HashValue(r) == (CHOOSE i \in DOMAIN RootTable : RootTable[i] = r) - 1

\* The digits of n in a base, padded with zeros to a width.
Padded(n, base, width) ==
  LET d == Digits(n, base)
  IN [i \in 1..(width - Len(d)) |-> "0"] \o d

\* common.Hash.Hex: 0x and every byte as two lowercase digits.
Hex(r) == <<"0", "x">> \o Padded(HashValue(r), 16, RootDigits)

\* strings.ToLower.
UpperChars == <<"A", "B", "C", "D", "E", "F", "X">>
LowerChars == <<"a", "b", "c", "d", "e", "f", "x">>
ToLower(s) ==
  [i \in DOMAIN s |->
     IF s[i] \in Range(UpperChars)
       THEN LowerChars[CHOOSE j \in DOMAIN UpperChars : UpperChars[j] = s[i]]
       ELSE s[i]]

\* The pieces of the format string of line 455.
KeySlot == <<"{", "\"", "s", "l", "o", "t", "\"", ":">>
KeyCommitteeIndex ==
  <<",", "\"", "c", "o", "m", "m", "i", "t", "t", "e", "e", "_", "i", "n", "d", "e", "x",
    "\"", ":">>
KeyReceiptsRoot ==
  <<",", "\"", "r", "e", "c", "e", "i", "p", "t", "s", "_", "r", "o", "o", "t", "\"", ":",
    "\"">>
CloseObject == <<"\"", "}">>

\* Variant: the integers are written as JSON strings.
MarshalAttestationJSON_Quoted(att) ==
  KeySlot \o <<"\"">> \o Digits(att.slot, 10) \o <<"\"">>
    \o KeyCommitteeIndex \o <<"\"">> \o Digits(att.committee_index, 10) \o <<"\"">>
    \o KeyReceiptsRoot \o ToLower(Hex(att.receipts_root)) \o CloseObject

\* MarshalAttestationJSON: Sprintf of {"slot":%d,"committee_index":%d,
\* "receipts_root":"%s"} with the lowercased Hex of the root.
MarshalAttestationJSON(att) ==
  KeySlot \o Digits(att.slot, 10)
    \o KeyCommitteeIndex \o Digits(att.committee_index, 10)
    \o KeyReceiptsRoot \o ToLower(Hex(att.receipts_root)) \o CloseObject

(***************************************************************************)
(* BLS keys and signatures.  A secret key is KeyBytes bytes long here; a   *)
(* secret is given as the characters of its hexadecimal text.              *)
(***************************************************************************)
\* strings.TrimPrefix(skHex, "0x").
TrimPrefix0x(s) ==
  IF Len(s) >= 2 /\ s[1] = "0" /\ s[2] = "x" THEN SubSeq(s, 3, Len(s)) ELSE s

\* hex.DecodeString: an even number of hexadecimal digits of either case.
UpperHex == SubSeq(UpperChars, 1, 6)
DecodeString(s) ==
  IF Len(s) % 2 = 0 /\ Range(s) \subseteq Range(HexChars) \cup Range(UpperHex)
    THEN [ok |-> TRUE,
          bytes |-> [i \in 1..(Len(s) \div 2) |->
                       16 * DigitVal(ToLower(s)[2 * i - 1]) + DigitVal(ToLower(s)[2 * i])]]
    ELSE [ok |-> FALSE, bytes |-> <<>>]

reverseInPlace(b) == [i \in DOMAIN b |-> b[Len(b) + 1 - i]]

\* sec.GetPublicKey().Serialize(): the public key of the loaded secret key.
PublicKeyOf(sec) == [of |-> sec]
NoKey == [ok |-> FALSE, sec |-> <<>>, pk |-> PublicKeyOf(<<>>)]

\* Variant: the length of the decoded secret is not looked at.
loadHerumiSK_AnyLength(skHex) ==
  LET d == DecodeString(TrimPrefix0x(skHex))
  IN IF ~d.ok THEN NoKey
     ELSE [ok |-> TRUE, sec |-> reverseInPlace(d.bytes),
           pk |-> PublicKeyOf(reverseInPlace(d.bytes))]

\* loadHerumiSKFromRustBigEndianHex: sec is what SetLittleEndian is given.
loadHerumiSK(skHex) ==
  LET d == DecodeString(TrimPrefix0x(skHex))
  IN IF ~d.ok \/ Len(d.bytes) # KeyBytes THEN NoKey
     ELSE [ok |-> TRUE, sec |-> reverseInPlace(d.bytes),
           pk |-> PublicKeyOf(reverseInPlace(d.bytes))]

\* "0x" + hex.EncodeToString(pk).
KeyHex(pk) == [hex |-> pk]
BLSPubKeyHex(skHex) ==
  [ok |-> loadHerumiSK(skHex).ok, pk |-> KeyHex(loadHerumiSK(skHex).pk)]

\* Variant: the key is loaded as it was given, big-endian.
BLSSign_BigEndianKey(skHex, msg) ==
  LET d == DecodeString(TrimPrefix0x(skHex))
  IN IF ~loadHerumiSK(skHex).ok THEN [ok |-> FALSE, sig |-> NoSig, pk |-> NoKey.pk]
     ELSE [ok |-> TRUE, sig |-> [signer |-> d.bytes, msg |-> msg], pk |-> PublicKeyOf(d.bytes)]

\* BLSSign: sec.SignByte(msg) is a function of the key and the message.
BLSSign(skHex, msg) ==
  IF ~loadHerumiSK(skHex).ok THEN [ok |-> FALSE, sig |-> NoSig, pk |-> NoKey.pk]
  ELSE [ok |-> TRUE,
        sig |-> [signer |-> loadHerumiSK(skHex).sec, msg |-> msg],
        pk |-> loadHerumiSK(skHex).pk]

\* A secret of the right length, and the same without its last byte.
ValidSecret ==
  <<"0", "x">> \o [i \in 1..(2 * KeyBytes) |-> IF i % 2 = 1 THEN "0" ELSE HexChars[(i \div 2) + 1]]
ShortSecret == SubSeq(ValidSecret, 1, 2 * KeyBytes)
Secrets == {ValidSecret, ShortSecret}

(***************************************************************************)
(* State.                                                                  *)
(***************************************************************************)
VARIABLES
  secret,       \* cfg.BLSSecretHex
  retryMax,     \* cfg.RetryMax (RunWSValidator holds cfg by value and overwrites it)
  pc,           \* position of the Runner
  retries,      \* RunWSValidator's retries
  attempts,     \* calls of runOnce so far
  err,          \* error runOnce returned
  result,       \* what RunWSValidator returned
  conn,         \* the connection of the current attempt (0: none)
  connOpen,     \* that connection is open
  subSent,      \* the subscribe request was written on it
  subResp,      \* the subscribe response read on it: "none", "ok" or "error"
  cancelled,    \* ctx is done
  pushId,       \* pushes read so far
  cur,          \* the push being processed, as it was read
  branch,       \* branch of line 315 taken for it: "hash" or "number"
  slot, hash, txCount, root, att, sig,  \* runOnce's locals for it
  elapsed,      \* poll intervals since the running wait computed its deadline
  status,       \* what became of the push
  trace,        \* stages the push went through
  sub,          \* what SubmitVerification was called with for it
  subs,         \* ids of the pushes SubmitVerification was called for, in call order
  fn,           \* the function applied on its own ("none" while the Runner runs)
  arg,          \* its argument
  res,          \* its result, NoRes before it has returned
  program,      \* the deposit program that runs ("none" outside OnceSpec)
  todo,         \* per goroutine: the calls it still has to make, in order
  at,           \* per goroutine: its position inside the call it is making
  onceDone,     \* blsOnce.done
  onceM,        \* the goroutine holding blsOnce.m (NoHolder: free)
  lib,          \* the BLS library: "none", "running" (bls.Init is inside), "ready"
  initRuns,     \* calls of bls.Init so far
  keyOps,       \* key operations so far: how many ran, how many before the library was ready
  nTasks,       \* len(tasks) of runConcurrent (0 outside BatchSpec)
  workers,      \* runConcurrent's workers, after line 166 replaced a value <= 0
  orderedOutput,\* runConcurrent's orderedOutput
  fed,          \* tasks the feeding goroutine has handed over on in
  inClosed,     \* close(in) has run
  outClosed,    \* close(out) has run
  wg,           \* the WaitGroup's counter
  wk,           \* per worker: position, the task it holds, the result it holds
  mpc,          \* position of runConcurrent's own goroutine
  buf,          \* buf of the ordered branch: the results held back, by index
  next,         \* next of the ordered branch
  okCount,      \* runConcurrent's ok
  failCount,    \* runConcurrent's fail
  printed,      \* the indexes printResult was called with, in call order
  items,        \* len(items) of SendDepositsConcurrently (0 outside SendSpec)
  pool,         \* its workers, after line 1076 replaced a value <= 0
  handed,       \* items handed over on in
  inDone,       \* close(in) has run
  outDone,      \* close(out) has run
  sw,           \* per worker: position and the item it holds
  delivered,    \* the items whose DepositResult the caller received, in order
  panicked      \* a goroutine has panicked: the process is gone

cfgVars == <<secret, retryMax>>
runVars == <<retries, attempts, err, result>>
connVars == <<conn, connOpen, subSent, subResp>>
localVars == <<branch, slot, hash, txCount, root, att, sig, elapsed>>
pushVars == <<pushId, cur, status, trace, sub, subs>>
callVars == <<fn, arg, res>>
onceVars == <<program, todo, at, onceDone, onceM, lib, initRuns, keyOps>>
batchVars == <<nTasks, workers, orderedOutput, fed, inClosed, outClosed, wg, wk, mpc,
               buf, next, okCount, failCount, printed>>
\* What the Runner leaves alone: the state of the other specifications.
sendVars == <<items, pool, handed, inDone, outDone, sw, delivered, panicked>>
otherVars == <<callVars, onceVars, batchVars, sendVars>>
vars == <<cfgVars, runVars, connVars, localVars, pushVars, pc, cancelled, otherVars>>

NoRes == [returned |-> FALSE]

\* No function is applied on its own.
NoCall == fn = "none" /\ arg = <<>> /\ res = NoRes

NoHolder == 0

\* No deposit program runs.
NoProgram ==
  /\ program = "none" /\ todo = <<>> /\ at = <<>>
  /\ onceDone = 0 /\ onceM = NoHolder /\ lib = "none" /\ initRuns = 0
  /\ keyOps = [run |-> 0, early |-> 0]

\* runConcurrent has not been called.
NoBatch ==
  /\ nTasks = 0 /\ workers = 0 /\ orderedOutput = FALSE
  /\ fed = 0 /\ inClosed = FALSE /\ outClosed = FALSE /\ wg = 0 /\ wk = <<>>
  /\ mpc = "none" /\ buf = <<>> /\ next = 0 /\ okCount = 0 /\ failCount = 0 /\ printed = <<>>

\* SendDepositsConcurrently has not been called.
NoSend ==
  /\ items = 0 /\ pool = 0 /\ handed = 0 /\ inDone = FALSE /\ outDone = FALSE
  /\ sw = <<>> /\ delivered = <<>> /\ panicked = FALSE

\* RunWSValidator has not been called.
NotStarted ==
  /\ pc = "start"
  /\ retries = 0 /\ attempts = 0 /\ err = "none" /\ result = "none"
  /\ conn = 0 /\ connOpen = FALSE /\ subSent = FALSE /\ subResp = "none"
  /\ cancelled = FALSE
  /\ pushId = 0 /\ cur = NoPush
  /\ branch = "none" /\ slot = 0 /\ hash = ZeroHash /\ txCount = 0
  /\ root = ZeroRoot /\ att = NoAtt /\ sig = NoSig /\ elapsed = 0
  /\ status = "none" /\ trace = <<>> /\ sub = NoSub /\ subs = <<>>

Init ==
  /\ retryMax \in CfgRetryMaxValues
  /\ secret \in Secrets
  /\ NoCall /\ NoProgram /\ NoBatch /\ NoSend
  /\ NotStarted

\* Variant: slot, hash and txCount are declared outside the loop and outlive
\* the iteration.
ResetLocals_KeepsIdentity ==
  /\ branch' = "none" /\ slot' = slot /\ hash' = hash /\ txCount' = txCount
  /\ root' = ZeroRoot /\ att' = NoAtt /\ sig' = NoSig /\ elapsed' = 0

\* The locals of one loop iteration are gone when the iteration ends.
ResetLocals ==
  /\ branch' = "none" /\ slot' = 0 /\ hash' = ZeroHash /\ txCount' = 0
  /\ root' = ZeroRoot /\ att' = NoAtt /\ sig' = NoSig /\ elapsed' = 0

(***************************************************************************)
(* RunWSValidator.                                                         *)
(***************************************************************************)
\* Lines 143-161: the defaults, the public key, the first call of runOnce.
Start ==
  /\ pc = "start"
  /\ retryMax' = IF retryMax <= 0 THEN DefaultRetryMax ELSE retryMax
  /\ retries' = 0
  /\ IF BLSPubKeyHex(secret).ok
       THEN pc' = "dial" /\ attempts' = attempts + 1 /\ result' = result
       ELSE pc' = "done" /\ attempts' = attempts /\ result' = "derive"
  /\ UNCHANGED <<otherVars, secret, err, connVars, localVars, pushVars, cancelled>>

\* Variant: the budget test reads retries >= cfg.RetryMax.
AfterRunOnce_OffByOne ==
  /\ pc = "ret"
  /\ IF err = "nil"
       THEN pc' = "done" /\ result' = "nil" /\ retries' = retries
     ELSE IF cancelled
       THEN pc' = "done" /\ result' = "ctx" /\ retries' = retries
     ELSE /\ retries' = retries + 1
          /\ IF retries + 1 >= retryMax
               THEN pc' = "done" /\ result' = "maxretries"
               ELSE pc' = "retry_wait" /\ result' = result
  /\ UNCHANGED <<otherVars, cfgVars, attempts, err, connVars, localVars, pushVars, cancelled>>

\* Variant: ctx.Err() is not looked at after runOnce.
AfterRunOnce_NoCtxCheck ==
  /\ pc = "ret"
  /\ IF err = "nil"
       THEN pc' = "done" /\ result' = "nil" /\ retries' = retries
     ELSE /\ retries' = retries + 1
          /\ IF retries + 1 > retryMax
               THEN pc' = "done" /\ result' = "maxretries"
               ELSE pc' = "retry_wait" /\ result' = result
  /\ UNCHANGED <<otherVars, cfgVars, attempts, err, connVars, localVars, pushVars, cancelled>>

\* Lines 162-172: runOnce has returned err.
AfterRunOnce ==
  /\ pc = "ret"
  /\ IF err = "nil"
       THEN pc' = "done" /\ result' = "nil" /\ retries' = retries
     ELSE IF cancelled
       THEN pc' = "done" /\ result' = "ctx" /\ retries' = retries
     ELSE /\ retries' = retries + 1
          /\ IF retries + 1 > retryMax
               THEN pc' = "done" /\ result' = "maxretries"
               ELSE pc' = "retry_wait" /\ result' = result
  /\ UNCHANGED <<otherVars, cfgVars, attempts, err, connVars, localVars, pushVars, cancelled>>

\* Lines 173-174 and 161: the retry interval has passed, runOnce is called again.
\* The goroutine is parked in the select: the case that becomes ready first is
\* the one taken, so the timer case runs only if the timer fires before ctx is done.
RetryTimer ==
  /\ pc = "retry_wait"
  /\ ~cancelled
  /\ pc' = "dial"
  /\ attempts' = attempts + 1
  /\ UNCHANGED <<otherVars, cfgVars, retries, err, result, connVars, localVars, pushVars, cancelled>>

\* Lines 175-176: ctx is done while waiting.
RetryCancelled ==
  /\ pc = "retry_wait"
  /\ cancelled
  /\ pc' = "done"
  /\ result' = "ctx"
  /\ UNCHANGED <<otherVars, cfgVars, retries, attempts, err, connVars, localVars, pushVars, cancelled>>

\* The caller cancels ctx.
Cancel ==
  /\ ~cancelled
  /\ pc # "done"
  /\ cancelled' = TRUE
  /\ UNCHANGED <<otherVars, cfgVars, runVars, connVars, localVars, pushVars, pc>>

(***************************************************************************)
(* runOnce: connect and subscribe.                                         *)
(***************************************************************************)
\* runOnce returns e; the deferred conn.Close() runs.
Return(e) ==
  /\ pc' = "ret"
  /\ err' = e
  /\ connOpen' = FALSE

\* Variant: only the first connection subscribes.
Dial_SubscribeOnce ==
  /\ pc = "dial"
  /\ \E ok \in (IF cancelled THEN {FALSE} ELSE BOOLEAN) :
       IF ok
         THEN /\ conn' = attempts /\ connOpen' = TRUE /\ subSent' = FALSE /\ subResp' = "none"
              /\ pc' = IF attempts = 1 THEN "sub_write" ELSE "loop"
              /\ err' = err
         ELSE /\ pc' = "ret" /\ err' = "dial"
              /\ UNCHANGED connVars
  /\ UNCHANGED <<otherVars, cfgVars, retries, attempts, result, localVars, pushVars, cancelled>>

\* Variant: a connection that is made gives the retry budget back.
Dial_RestoresBudget ==
  /\ pc = "dial"
  /\ \E ok \in (IF cancelled THEN {FALSE} ELSE BOOLEAN) :
       IF ok
         THEN /\ conn' = attempts /\ connOpen' = TRUE /\ subSent' = FALSE /\ subResp' = "none"
              /\ pc' = "sub_write" /\ err' = err /\ retries' = 0
         ELSE /\ pc' = "ret" /\ err' = "dial" /\ retries' = retries
              /\ UNCHANGED connVars
  /\ UNCHANGED <<otherVars, cfgVars, attempts, result, localVars, pushVars, cancelled>>

\* Lines 186-192: DialContext; a done ctx makes it fail.
Dial ==
  /\ pc = "dial"
  /\ \E ok \in (IF cancelled THEN {FALSE} ELSE BOOLEAN) :
       IF ok
         THEN /\ conn' = attempts /\ connOpen' = TRUE /\ subSent' = FALSE /\ subResp' = "none"
              /\ pc' = "sub_write" /\ err' = err
         ELSE /\ pc' = "ret" /\ err' = "dial"
              /\ UNCHANGED connVars
  /\ UNCHANGED <<otherVars, cfgVars, retries, attempts, result, localVars, pushVars, cancelled>>

\* Lines 195-204: the subscribe request is written.
SubWrite ==
  /\ pc = "sub_write"
  /\ \E ok \in BOOLEAN :
       IF ok
         THEN /\ subSent' = TRUE /\ pc' = "sub_read"
              /\ UNCHANGED <<err, connOpen>>
         ELSE /\ Return("write") /\ subSent' = subSent
  /\ UNCHANGED <<otherVars, cfgVars, retries, attempts, result, conn, subResp, localVars, pushVars, cancelled>>

\* Variant: the error object of the subscribe response is not looked at.
SubRead_IgnoresError ==
  /\ pc = "sub_read"
  /\ \E r \in {"ok", "subrpc", "subread"} :
       /\ subResp' = IF r = "ok" THEN "ok" ELSE IF r = "subrpc" THEN "error" ELSE "none"
       /\ IF r \in {"ok", "subrpc"}
            THEN pc' = "loop" /\ UNCHANGED <<err, connOpen>>
            ELSE Return(r)
  /\ UNCHANGED <<otherVars, cfgVars, retries, attempts, result, conn, subSent, localVars, pushVars, cancelled>>

\* Lines 207-214: the first message read is the subscribe response.
SubRead ==
  /\ pc = "sub_read"
  /\ \E r \in {"ok", "subrpc", "subread"} :
       /\ subResp' = IF r = "ok" THEN "ok" ELSE IF r = "subrpc" THEN "error" ELSE "none"
       /\ IF r = "ok"
            THEN pc' = "loop" /\ UNCHANGED <<err, connOpen>>
            ELSE Return(r)
  /\ UNCHANGED <<otherVars, cfgVars, retries, attempts, result, conn, subSent, localVars, pushVars, cancelled>>

(***************************************************************************)
(* runOnce: the streaming loop.                                            *)
(***************************************************************************)
\* `continue`: the iteration ends, its locals are gone.
EndPush(st) ==
  /\ pc' = "loop"
  /\ status' = st
  /\ ResetLocals

\* Variant: the loop head ends runOnce without an error when ctx is done.
LoopHead_ReturnsNil ==
  /\ pc = "loop"
  /\ IF cancelled
       THEN Return("nil") /\ UNCHANGED pushVars
       ELSE /\ pc' = "read"
            /\ cur' = NoPush /\ status' = "none" /\ trace' = <<>> /\ sub' = NoSub
            /\ UNCHANGED <<err, connOpen, pushId, subs>>
  /\ UNCHANGED <<otherVars, cfgVars, retries, attempts, result, conn, subSent, subResp, localVars, cancelled>>

\* Lines 217-222: the loop head looks at ctx, then blocks in conn.ReadJSON.
LoopHead ==
  /\ pc = "loop"
  /\ IF cancelled
       THEN Return("ctx") /\ UNCHANGED pushVars
       ELSE /\ pc' = "read"
            /\ cur' = NoPush /\ status' = "none" /\ trace' = <<>> /\ sub' = NoSub
            /\ UNCHANGED <<err, connOpen, pushId, subs>>
  /\ UNCHANGED <<otherVars, cfgVars, retries, attempts, result, conn, subSent, subResp, localVars, cancelled>>

\* Lines 224-226: the read fails.
ReadFail ==
  /\ pc = "read"
  /\ Return("read")
  /\ UNCHANGED <<otherVars, cfgVars, retries, attempts, result, conn, subSent, subResp, localVars, pushVars, cancelled>>

\* Lines 227-229: a message that is no push.
RecvNonPush ==
  /\ pc = "read"
  /\ pc' = "loop"
  /\ UNCHANGED <<otherVars, cfgVars, runVars, connVars, localVars, pushVars, cancelled>>

\* Variant: a push whose result does not decode makes runOnce return.
RecvBadPush_Returns ==
  /\ pc = "read"
  /\ pushId < MaxPushes
  /\ pushId' = pushId + 1
  /\ cur' = [NoPush EXCEPT !.id = pushId + 1, !.conn = conn]
  /\ status' = "bad_push"
  /\ Return("decode")
  /\ UNCHANGED <<otherVars, cfgVars, retries, attempts, result, conn, subSent, subResp, localVars, trace, sub,
                 subs, cancelled>>

\* Lines 231-238: a push whose result does not decode.
RecvBadPush ==
  /\ pc = "read"
  /\ pushId < MaxPushes
  /\ pushId' = pushId + 1
  /\ cur' = [NoPush EXCEPT !.id = pushId + 1, !.conn = conn]
  /\ EndPush("bad_push")
  /\ UNCHANGED <<otherVars, cfgVars, runVars, connVars, trace, sub, subs, cancelled>>

\* What lines 247-292 make of the headers, and lines 301-307 of the bodies, a push
\* can carry.
DecodedHeaders == {DecodeHeader(h) : h \in Headers}
DecodedBodies == {TxCountOf(b) : b \in Bodies}

\* Line 315: the branch is chosen by the hash the decoder handed on.
BranchOf(d) == IF d.hash # ZeroHash THEN "hash" ELSE "number"

\* Variant: the test of line 295 is missing, a push without identity is
\* processed like any other.
RecvPush_NoIdentityCheck(d, n, c) ==
  /\ pc = "read"
  /\ pushId < MaxPushes
  /\ pushId' = pushId + 1
  /\ cur' = [id |-> pushId + 1, conn |-> conn, src |-> d.src, num |-> d.slot,
             hash |-> d.hash, cidx |-> c, tx |-> n]
  /\ slot' = d.slot /\ hash' = d.hash /\ txCount' = n
  /\ branch' = BranchOf(d)
  /\ pc' = IF BranchOf(d) = "hash" THEN "wait_hash" ELSE "wait_num"
  /\ elapsed' = 0
  /\ status' = "processing"
  /\ trace' = <<"decode">>
  /\ UNCHANGED <<root, att, sig>>
  /\ UNCHANGED <<otherVars, cfgVars, runVars, connVars, sub, subs, cancelled>>

\* Lines 231-315: a push is read; d is its decoded header, n its transaction
\* count, c its committee_index.  Line 315 picks the branch and the wait that
\* follows computes its deadline.
RecvPush(d, n, c) ==
  /\ pc = "read"
  /\ pushId < MaxPushes
  /\ pushId' = pushId + 1
  /\   /\ cur' = [id |-> pushId + 1, conn |-> conn, src |-> d.src, num |-> d.slot,
                  hash |-> d.hash, cidx |-> c, tx |-> n]
       /\ IF ~d.ok
            THEN EndPush("no_identity") /\ trace' = trace
            ELSE /\ slot' = d.slot /\ hash' = d.hash /\ txCount' = n
                 /\ branch' = BranchOf(d)
                 /\ pc' = IF BranchOf(d) = "hash" THEN "wait_hash" ELSE "wait_num"
                 /\ elapsed' = 0
                 /\ status' = "processing"
                 /\ trace' = <<"decode">>
                 /\ UNCHANGED <<root, att, sig>>
  /\ UNCHANGED <<otherVars, cfgVars, runVars, connVars, sub, subs, cancelled>>

\* Variant: the `continue` after a wait that timed out is missing.
AfterMiss_FallsThrough(now, ticks, sleepPc, timeoutStatus) ==
  IF now > ticks
    THEN /\ pc' = "sign" /\ elapsed' = 0
         /\ UNCHANGED <<branch, slot, hash, txCount, root, att, sig, status, trace>>
    ELSE /\ pc' = sleepPc /\ elapsed' = now
         /\ UNCHANGED <<branch, slot, hash, txCount, root, att, sig, status, trace>>

\* Variant: the deadline is not looked at, a miss always sleeps.
AfterMiss_NoDeadline(now, ticks, sleepPc, timeoutStatus) ==
  /\ pc' = sleepPc /\ elapsed' = now
  /\ UNCHANGED <<branch, slot, hash, txCount, root, att, sig, status, trace>>

\* After a miss: time.Now().After(deadline) ends the wait, else the poll sleeps.
AfterMiss(now, ticks, sleepPc, timeoutStatus) ==
  IF now > ticks
    THEN EndPush(timeoutStatus) /\ trace' = trace
    ELSE /\ pc' = sleepPc /\ elapsed' = now
         /\ UNCHANGED <<branch, slot, hash, txCount, root, att, sig, status, trace>>

\* Variant: the wait returns its hash whatever the query answers.
PollBlockByHash_NoWait ==
  /\ pc = "wait_hash"
  /\ pc' = "wait_root" /\ elapsed' = 0
  /\ trace' = Append(trace, "resolve")
  /\ UNCHANGED <<branch, slot, hash, txCount, root, att, sig, status>>
  /\ UNCHANGED <<otherVars, cfgVars, runVars, connVars, pushId, cur, sub, subs, cancelled>>

\* waitForBlockHashVisible, lines 507-516: one getBlockNumberByHash query.
PollBlockByHash ==
  /\ pc = "wait_hash"
  /\ \E found \in (IF hash \in KnownHashes /\ ~cancelled THEN BOOLEAN ELSE {FALSE}),
        dt \in {0, 1} :
       IF found
         THEN /\ pc' = "wait_root" /\ elapsed' = 0
              /\ trace' = Append(trace, "resolve")
              /\ UNCHANGED <<branch, slot, hash, txCount, root, att, sig, status>>
         ELSE AfterMiss(Min(elapsed + dt, WaitBlockTicks + 1), WaitBlockTicks,
                        "sleep_hash", "resolve_timeout")
  /\ UNCHANGED <<otherVars, cfgVars, runVars, connVars, pushId, cur, sub, subs, cancelled>>

\* waitForBlockHashByNumber, lines 485-494: one getBlockHashByNumber query.
PollBlockByNumber ==
  /\ pc = "wait_num"
  /\ \E found \in (IF slot \in Numbers /\ ~cancelled THEN BOOLEAN ELSE {FALSE}),
        dt \in {0, 1} :
       IF found
         THEN /\ pc' = "wait_root" /\ elapsed' = 0
              /\ hash' = BlockHash(slot)
              /\ trace' = Append(trace, "resolve")
              /\ UNCHANGED <<branch, slot, txCount, root, att, sig, status>>
         ELSE AfterMiss(Min(elapsed + dt, WaitBlockTicks + 1), WaitBlockTicks,
                        "sleep_num", "resolve_timeout")
  /\ UNCHANGED <<otherVars, cfgVars, runVars, connVars, pushId, cur, sub, subs, cancelled>>

\* Lines 323-333 / 342-347 after the root: the hash branch back-fills a zero slot.
AfterRoot(r) ==
  /\ root' = r
  /\ pc' = IF branch = "hash" /\ slot = 0 THEN "backfill" ELSE "sign"
  /\ elapsed' = 0
  /\ trace' = Append(trace, "root")
  /\ UNCHANGED <<otherVars, branch, slot, hash, txCount, att, sig, status>>

\* computeReceiptsRootByHashWithRetry, lines 528-543: the empty-block short cut,
\* else one ComputeReceiptsRootByHash attempt; a done ctx makes every call fail.
PollReceiptsRoot ==
  /\ pc = "wait_root"
  /\ IF txCount = 0
       THEN AfterRoot(EmptyTrieRoot)
       ELSE \E block \in (IF cancelled THEN {RpcError} ELSE BlockAnswers(hash)),
               answers \in (IF cancelled THEN {[tx \in Range(BlockTxs(hash)) |-> RpcError]}
                            ELSE ReceiptAnswers(Range(BlockTxs(hash)))),
               dt \in {0, 1} :
              LET r == ComputeReceiptsRootByHash(block, answers)
              IN IF r.ok
                   THEN AfterRoot(r.root)
                   ELSE AfterMiss(Min(elapsed + dt, WaitReceiptTicks + 1), WaitReceiptTicks,
                                  "sleep_root", "root_timeout")
  /\ UNCHANGED <<otherVars, cfgVars, runVars, connVars, pushId, cur, sub, subs, cancelled>>

SleepPcs == {"sleep_hash", "sleep_num", "sleep_root"}
WaitPcOf(p) == CASE p = "sleep_hash" -> "wait_hash"
                 [] p = "sleep_num" -> "wait_num"
                 [] OTHER -> "wait_root"
TicksOf(p) == IF p = "sleep_root" THEN WaitReceiptTicks ELSE WaitBlockTicks

\* Variant: the poll sleep lets the read loop go on.
PollSleepTimer_ReadsOn ==
  /\ pc \in SleepPcs
  /\ ~cancelled
  /\ pc' = "read"
  /\ UNCHANGED <<otherVars, cfgVars, runVars, connVars, localVars, pushVars, cancelled>>

\* The select of the three waits: time.After(interval) fires first.
PollSleepTimer ==
  /\ pc \in SleepPcs
  /\ ~cancelled
  /\ pc' = WaitPcOf(pc)
  /\ elapsed' = Min(elapsed + 1, TicksOf(pc) + 1)
  /\ UNCHANGED <<otherVars, cfgVars, runVars, connVars, branch, slot, hash, txCount, root, att, sig,
                 pushVars, cancelled>>

\* The select of the three waits: ctx is done first; the wait returns ctx.Err() and the
\* caller (lines 317-319, 323-326, 336-339, 342-345) logs and continues.
PollSleepCancelled ==
  /\ pc \in SleepPcs
  /\ cancelled
  /\ EndPush(IF pc = "sleep_root" THEN "root_ctx" ELSE "resolve_ctx")
  /\ UNCHANGED <<otherVars, cfgVars, runVars, connVars, pushId, cur, trace, sub, subs, cancelled>>

\* Lines 329-333: slot == 0 in the hash branch: one getBlockNumberByHash query,
\* whose error is dropped.
Backfill ==
  /\ pc = "backfill"
  /\ \E ok \in (IF cancelled THEN {FALSE} ELSE BOOLEAN) :
       slot' = IF ok THEN NumberOfHash(hash) ELSE slot
  /\ pc' = "sign"
  /\ trace' = Append(trace, "backfill")
  /\ UNCHANGED <<otherVars, cfgVars, runVars, connVars, branch, hash, txCount, root, att, sig, elapsed,
                 pushId, cur, status, sub, subs, cancelled>>

\* Lines 350-358: build, encode, sign.
Sign ==
  /\ pc = "sign"
  /\ LET a == BuildAttestationData(slot, cur.cidx, root)
         s == BLSSign(secret, MarshalAttestationJSON(a))
     IN IF s.ok
          THEN /\ att' = a /\ sig' = s.sig
               /\ pc' = "submit"
               /\ trace' = trace \o <<"encode", "sign">>
               /\ UNCHANGED <<branch, slot, hash, txCount, root, elapsed, status>>
          ELSE EndPush("sign_failed") /\ trace' = trace
  /\ UNCHANGED <<otherVars, cfgVars, runVars, connVars, pushId, cur, sub, subs, cancelled>>

\* Variant: a failed submission is tried again.
Submit_RetriesFailure ==
  /\ pc = "submit"
  /\ sub' = [push |-> cur.id, readOn |-> cur.conn, sentOn |-> conn, att |-> att,
             hash |-> hash, sig |-> sig, pk |-> KeyHex(BLSSign(secret, sig.msg).pk)]
  /\ subs' = Append(subs, cur.id)
  /\ trace' = Append(trace, "submit")
  /\ \E ok \in (IF cancelled THEN {FALSE} ELSE BOOLEAN) :
       IF ok
         THEN EndPush("attested")
         ELSE UNCHANGED <<pc, status, localVars>>
  /\ UNCHANGED <<otherVars, cfgVars, runVars, connVars, pushId, cur, cancelled>>

\* Lines 361-365: SubmitVerification is called; a done ctx makes the request fail.
Submit ==
  /\ pc = "submit"
  /\ sub' = [push |-> cur.id, readOn |-> cur.conn, sentOn |-> conn, att |-> att,
             hash |-> hash, sig |-> sig, pk |-> KeyHex(BLSSign(secret, sig.msg).pk)]
  /\ subs' = Append(subs, cur.id)
  /\ trace' = Append(trace, "submit")
  /\ \E ok \in (IF cancelled THEN {FALSE} ELSE BOOLEAN) :
       EndPush(IF ok THEN "attested" ELSE "submit_failed")
  /\ UNCHANGED <<otherVars, cfgVars, runVars, connVars, pushId, cur, cancelled>>

(***************************************************************************)
(* The specifications.                                                     *)
(***************************************************************************)
\* The steps the Runner takes by itself: calls that return (the RPC and HTTP
\* clients have a 10 s timeout, the dial a handshake timeout) and timers.
RunnerStep ==
  \/ Start \/ AfterRunOnce \/ RetryTimer \/ RetryCancelled
  \/ Dial \/ SubWrite \/ LoopHead
  \/ PollBlockByHash \/ PollBlockByNumber \/ PollReceiptsRoot
  \/ PollSleepTimer \/ PollSleepCancelled
  \/ Backfill \/ Sign \/ Submit

\* What the transport and the caller do: the Runner only waits for it.
EnvStep ==
  \/ Cancel
  \/ SubRead
  \/ ReadFail
  \/ RecvNonPush
  \/ RecvBadPush
  \/ \E d \in DecodedHeaders, n \in DecodedBodies, c \in Committees : RecvPush(d, n, c)

Next == RunnerStep \/ EnvStep

Spec == Init /\ [][Next]_vars

FairSpec == Spec /\ WF_vars(RunnerStep)

(***************************************************************************)
(* The functions of the pipeline applied on their own: Init draws the       *)
(* function and its argument, the one step applies it.                     *)
(***************************************************************************)
SeqsUpTo(S, n) == UNION {[1..k -> S] : k \in 0..n}
Max(a, b) == IF a > b THEN a ELSE b

(***************************************************************************)
(* The three waits as functions of their arguments and of what happens     *)
(* while they run.  Time is counted from the call: a tick is two units     *)
(* long, queries and timers end at even times, ctx is done at an odd time  *)
(* (env.cancelAt), so no two events fall together.  env.script[i] is the   *)
(* execution layer's answer to the i-th query, were it to arrive, and the  *)
(* time the query takes.  A result tells the value and error returned, the *)
(* number of queries issued and the time of the return.                    *)
(***************************************************************************)
Durations == {0, 2}
Timeouts == {2 * j : j \in 0..MaxTimeoutTicks}
Intervals == {2 * j : j \in 1..MaxIntervalTicks}
MaxRounds == MaxTimeoutTicks + 2
Never == 2 * MaxRounds * (MaxIntervalTicks + 1) + 1
CancelTimes == {2 * j + 1 : j \in 0..(MaxTimeoutTicks + 1)} \cup {Never}

\* Variant: the loop does not sleep between polls.
RECURSIVE PollLoop_NoSleep(_, _, _, _, _, _, _)
PollLoop_NoSleep(outcomes, zero, timeout, interval, cancelAt, now, i) ==
  LET o == outcomes[i]
      arrive == now + o.dt
      t == IF now > cancelAt THEN now ELSE IF arrive > cancelAt THEN cancelAt ELSE arrive
  IN IF arrive < cancelAt /\ o.ok
       THEN [ok |-> TRUE, val |-> o.val, err |-> "none", polls |-> i, at |-> t]
     ELSE IF t > timeout \/ i = MaxRounds
       THEN [ok |-> FALSE, val |-> zero, err |-> "timeout", polls |-> i, at |-> t]
     ELSE IF cancelAt < t
       THEN [ok |-> FALSE, val |-> zero, err |-> "ctx", polls |-> i, at |-> t]
     ELSE PollLoop_NoSleep(outcomes, zero, timeout, interval, cancelAt, t, i + 1)

\* Variant: the select has no ctx.Done() case.
RECURSIVE PollLoop_TimerOnly(_, _, _, _, _, _, _)
PollLoop_TimerOnly(outcomes, zero, timeout, interval, cancelAt, now, i) ==
  LET o == outcomes[i]
      arrive == now + o.dt
      t == IF now > cancelAt THEN now ELSE IF arrive > cancelAt THEN cancelAt ELSE arrive
  IN IF arrive < cancelAt /\ o.ok
       THEN [ok |-> TRUE, val |-> o.val, err |-> "none", polls |-> i, at |-> t]
     ELSE IF t > timeout
       THEN [ok |-> FALSE, val |-> zero, err |-> "timeout", polls |-> i, at |-> t]
     ELSE PollLoop_TimerOnly(outcomes, zero, timeout, interval, cancelAt, t + interval, i + 1)

\* The loop the three waits share (lines 485-500, 507-522, 534-549): query; on
\* success return; after a miss, past the deadline return the timeout error;
\* else select on the timer and ctx.Done().  outcomes[i] is what the i-th query
\* gives when ctx lets it finish: a query cut short by ctx is a miss.
RECURSIVE PollLoop(_, _, _, _, _, _, _)
PollLoop(outcomes, zero, timeout, interval, cancelAt, now, i) ==
  LET o == outcomes[i]
      arrive == now + o.dt
      t == IF now > cancelAt THEN now ELSE IF arrive > cancelAt THEN cancelAt ELSE arrive
  IN IF arrive < cancelAt /\ o.ok
       THEN [ok |-> TRUE, val |-> o.val, err |-> "none", polls |-> i, at |-> t]
     ELSE IF t > timeout
       THEN [ok |-> FALSE, val |-> zero, err |-> "timeout", polls |-> i, at |-> t]
     ELSE IF cancelAt < t + interval
       THEN [ok |-> FALSE, val |-> zero, err |-> "ctx", polls |-> i, at |-> Max(t, cancelAt)]
     ELSE PollLoop(outcomes, zero, timeout, interval, cancelAt, t + interval, i + 1)

\* waitForBlockHashByNumber: the query is getBlockHashByNumber, which gives the
\* hash of the block the execution layer has at that number.
waitForBlockHashByNumber(number, timeout, interval, env) ==
  PollLoop([i \in 1..MaxRounds |->
              [ok |-> env.script[i].ans = "found", val |-> BlockHash(number),
               dt |-> env.script[i].dt]],
           ZeroHash, timeout, interval, env.cancelAt, 0, 1)

\* waitForBlockHashVisible: the query is getBlockNumberByHash, whose number is
\* dropped; what is returned is the hash passed in.
waitForBlockHashVisible(h, timeout, interval, env) ==
  PollLoop([i \in 1..MaxRounds |->
              [ok |-> env.script[i].ans = "found", val |-> h, dt |-> env.script[i].dt]],
           ZeroHash, timeout, interval, env.cancelAt, 0, 1)

\* What the execution layer answers about block h in a round: the block is not
\* known yet, the receipt of its last transaction is not indexed yet, or
\* everything is there.
RootView(h, ans) ==
  [block |-> IF ans = "noblock" \/ h \notin KnownHashes THEN RpcNull
             ELSE BlockAnswer([i \in DOMAIN BlockTxs(h) |-> TxEntry(BlockTxs(h)[i])]),
   answers |-> [tx \in (IF h \in KnownHashes THEN Range(BlockTxs(h)) ELSE {}) |->
                  IF ans = "noreceipt" /\ tx.index = Len(BlockTxs(h)) THEN RpcNull
                  ELSE ReceiptAnswer(ReceiptJSON(tx))]]

\* Variant: no short cut for txCount 0.
computeReceiptsRootByHashWithRetry_NoShortCut(h, timeout, interval, count, env) ==
  PollLoop([i \in 1..MaxRounds |->
              LET v == RootView(h, env.script[i].ans)
                  r == ComputeReceiptsRootByHash(v.block, v.answers)
              IN [ok |-> r.ok, val |-> r.root, dt |-> env.script[i].dt]],
           ZeroRoot, timeout, interval, env.cancelAt, 0, 1)

\* computeReceiptsRootByHashWithRetry: the empty-trie constant when txCount is
\* 0, else the loop around ComputeReceiptsRootByHash.
computeReceiptsRootByHashWithRetry(h, timeout, interval, count, env) ==
  IF count = 0
    THEN [ok |-> TRUE, val |-> EmptyTrieRoot, err |-> "none", polls |-> 0, at |-> 0]
    ELSE PollLoop([i \in 1..MaxRounds |->
                     LET v == RootView(h, env.script[i].ans)
                         r == ComputeReceiptsRootByHash(v.block, v.answers)
                     IN [ok |-> r.ok, val |-> r.root, dt |-> env.script[i].dt]],
                  ZeroRoot, timeout, interval, env.cancelAt, 0, 1)

WaitEnvs(answers) ==
  [script : [1..MaxRounds -> [ans : answers, dt : Durations]], cancelAt : CancelTimes]
BlockWaitEnvs == WaitEnvs({"notfound", "err", "found"})
ByNumberInputs ==
  [number : {MaxBlock}, timeout : Timeouts, interval : Intervals, env : BlockWaitEnvs]
VisibleInputs ==
  [hash : {BlockHash(MaxBlock)}, timeout : Timeouts, interval : Intervals, env : BlockWaitEnvs]
WithRetryInputs ==
  [hash : {BlockHash(MaxBlock), UnknownHash}, timeout : Timeouts, interval : Intervals,
   txCount : {0, MaxTx}, env : WaitEnvs({"noblock", "noreceipt", "indexed"})]

\* Number fields: every encoding of every value, and what is no encoding.
RawNumbers ==
  {NumAbsent, NotANumber}
    \cup {QuotedHex(n) : n \in Uints} \cup {QuotedDec(n) : n \in Uints}
    \cup {BareNumber(n) : n \in Uints}
    \cup {[k |-> "str", s |-> t] :
            t \in {<<>>, <<" ">>, <<"0", "x">>, <<"z">>, <<" ", "7", " ">>, <<"0", "X", "a">>,
                   <<"0", "x", "-", "1">>, <<"-", "1">>, Digits(UintLimit, 10),
                   <<"0", "x">> \o Digits(UintLimit + 1, 16)}}
    \cup {[k |-> "bare", s |-> t] :
            t \in {<<"-", "1">>, <<"1", ".", "5">>, <<"1", "e", "1">>, Digits(UintLimit, 10)}}

RawFields(vals) == {FieldAbsent, FieldBad} \cup {Val(x) : x \in vals}
ListedTxs == {[block |-> BlockHash(0), index |-> i] : i \in 1..MaxListed}
RawReceipts ==
  [status : RawFields({0, 1}), cumulativeGasUsed : RawFields({7}),
   logs : RawFields({<<>>, <<"log">>, <<"junk", "log">>}), logsBloom : RawFields({1}),
   transactionHash : RawFields({[block |-> BlockHash(0), index |-> 1]}),
   blockHash : RawFields({BlockHash(0)}), contractAddress : RawFields({1})]

\* eth_getBlockByHash answers and, for each transaction an answer can list, an
\* eth_getTransactionReceipt answer.
RootInputs ==
  [block : {RpcError, RpcNull}
             \cup {BlockAnswer(l) :
                     l \in SeqsUpTo({TxEntry(t) : t \in ListedTxs} \cup {JunkEntry}, MaxListed)},
   answers : ReceiptAnswers(ListedTxs)]

\* Attestations: every slot, committee indexes of one and more digits, every root.
Attestations ==
  [slot : Uints, committee_index : Committees \cup {9, 10, UintLimit - 1},
   receipts_root : RootValues]

\* Secrets as text: of the right length (with and without 0x, in either case, in
\* both byte orders), too short, too long, of odd length, not hexadecimal.
SecretTexts ==
  LET t == TrimPrefix0x(ValidSecret)
  IN {ValidSecret, t, reverseInPlace(t), [t EXCEPT ![1] = "A"], [t EXCEPT ![1] = "a"],
      ShortSecret, ValidSecret \o <<"f", "f">>, <<>>, <<"0", "x">>, <<"0", "X">> \o t,
      Append(t, "0"), [t EXCEPT ![1] = "z"], <<"0", "x">> \o ValidSecret}
Messages ==
  {<<>>} \cup {MarshalAttestationJSON(BuildAttestationData(n, 0, EmptyTrieRoot)) : n \in {0, 1}}

(***************************************************************************)
(* Withdrawal credentials.  An execution address is AddrBytes bytes long   *)
(* here.                                                                   *)
(***************************************************************************)
Eth1Prefix == 1       \* wc[0] = 0x01
AddrOffset == 12      \* copy(wc[12:], addrBytes)
WcBytes == AddrOffset + AddrBytes

\* hex.EncodeToString: every byte as two lowercase digits.
EncodeToString(b) ==
  [k \in 1 .. (2 * Len(b)) |->
     IF k % 2 = 1 THEN HexChars[(b[(k + 1) \div 2] \div 16) + 1]
     ELSE HexChars[(b[k \div 2] % 16) + 1]]

\* sha256.Sum256, WcBytes wide here: a digest, every byte of which depends on
\* every byte of the input, and whose tail is not the input.
RECURSIVE Mix(_)
Mix(b) == IF b = <<>> THEN 7 ELSE (31 * Mix(SubSeq(b, 1, Len(b) - 1)) + b[Len(b)] + 1) % 256
Sum256(b) == [i \in 1 .. WcBytes |-> (Mix(b) * (2 * i + 1) + 89 * i) % 256]

NoCredentials == [ok |-> FALSE, hex |-> <<>>]

\* Variant: the address is hashed, as the line commented out at 773 did, and
\* the tail of the digest is copied.
ComputeWithdrawalCredentialsFromEth1_Hashed(executionAddressHex) ==
  LET d == DecodeString(TrimPrefix0x(executionAddressHex))
      wc == [i \in 1 .. WcBytes |->
               IF i = 1 THEN Eth1Prefix
               ELSE IF i <= AddrOffset THEN 0
               ELSE Sum256(d.bytes)[i]]
  IN IF ~d.ok THEN NoCredentials
     ELSE IF Len(d.bytes) # AddrBytes THEN NoCredentials
     ELSE [ok |-> TRUE, hex |-> <<"0", "x">> \o EncodeToString(wc)]

\* Lines 765-778 of ws.go.
ComputeWithdrawalCredentialsFromEth1(executionAddressHex) ==
  LET d == DecodeString(TrimPrefix0x(executionAddressHex))
      wc == [i \in 1 .. WcBytes |->
               IF i = 1 THEN Eth1Prefix
               ELSE IF i <= AddrOffset THEN 0
               ELSE d.bytes[i - AddrOffset]]
  IN IF ~d.ok THEN NoCredentials
     ELSE IF Len(d.bytes) # AddrBytes THEN NoCredentials
     ELSE [ok |-> TRUE, hex |-> <<"0", "x">> \o EncodeToString(wc)]

\* Addresses as text: every text of the right length over a few digits of
\* either case, with and without 0x; and texts that are too short, too long,
\* of odd length, not hexadecimal, or prefixed otherwise.
AddrChars == {"0", "1", "9", "a", "F"}
AddressTexts ==
  LET right == [1 .. (2 * AddrBytes) -> AddrChars]
      one == [i \in 1 .. (2 * AddrBytes) |-> "a"]
  IN right \cup {<<"0", "x">> \o t : t \in right}
       \cup {<<>>, <<"0", "x">>, SubSeq(one, 1, 2 * AddrBytes - 2), SubSeq(one, 1, 2 * AddrBytes - 1),
             one \o <<"0", "0">>, Append(one, "0"), [one EXCEPT ![1] = "z"],
             <<"0", "X">> \o one, <<"0", "x", "0", "x">> \o one,
             <<"0", "x">> \o SubSeq(one, 1, 2 * AddrBytes - 2)}

(***************************************************************************)
(* Package exit: SendExitRequest.                                          *)
(***************************************************************************)
\* An error is the sequence of the phrases of its message; nil is NilError.
NilError == <<>>
\* strings.Contains on a message.
Contains(msg, phrase) == \E i \in 1 .. Len(msg) : msg[i] = phrase

\* Lines 195-203 of part_000.
isNonceTooLow(e) ==
  IF e = NilError THEN FALSE
  ELSE \/ Contains(e, "nonce too low")
       \/ Contains(e, "replacement transaction underpriced")
       \/ Contains(e, "already known")

\* What sendOnce (lines 151-165) can return: nil, or the error of make1559,
\* types.SignTx or cli.SendTransaction.
SendErrors ==
  {NilError, <<"nonce too low">>, <<"replacement transaction underpriced">>,
   <<"already known">>, <<"rpc error", "nonce too low", "next nonce 7">>,
   <<"insufficient funds">>, <<"suggest gas", "timeout">>}
\* What cli.PendingNonceAt can return: a uint64, or an error.
NonceValues == {0, 1, UintLimit - 2, UintLimit - 1}
NonceReplies ==
  {[err |-> <<"nonce", "connection refused">>, value |-> 0]}
    \cup [err : {NilError}, value : NonceValues]
\* The node and the chain as one call of SendExitRequest meets them: whether
\* the steps before the nonce (lines 83-112) fail, the two nonce replies, the
\* outcomes of the two sends, the wait flag and how WaitMined ends.
ExitEnvs ==
  [before : {NilError, <<"eth_call get fee">>}, nonce1 : NonceReplies, send1 : SendErrors,
   nonce2 : NonceReplies, send2 : SendErrors, wait : BOOLEAN,
   mined : {NilError, <<"context canceled">>}]

\* Lines 69-193 of part_000.  sends lists the nonces sendOnce was called
\* with, in order; refreshed tells whether PendingNonceAt was called again.
\* nonce + 1 is computed in uint64.
SendExitRequest(env) ==
  IF env.before # NilError THEN [sends |-> <<>>, err |-> env.before, refreshed |-> FALSE]
  ELSE IF env.nonce1.err # NilError
    THEN [sends |-> <<>>, err |-> env.nonce1.err, refreshed |-> FALSE]
  ELSE
    LET nonce == env.nonce1.value
        nonce2 == IF env.nonce2.value <= nonce THEN (nonce + 1) % UintLimit
                  ELSE env.nonce2.value
        retry == env.send1 # NilError /\ isNonceTooLow(env.send1)
        sends == IF retry /\ env.nonce2.err = NilError THEN <<nonce, nonce2>> ELSE <<nonce>>
        sendErr == IF retry THEN env.send2 ELSE env.send1
    IN IF retry /\ env.nonce2.err # NilError
         THEN [sends |-> sends, err |-> env.nonce2.err, refreshed |-> TRUE]
       ELSE IF sendErr # NilError
         THEN [sends |-> sends, err |-> sendErr, refreshed |-> retry]
       ELSE [sends |-> sends, err |-> IF env.wait THEN env.mined ELSE NilError,
             refreshed |-> retry]

CallNames ==
  {"parseUint64JSON", "DecodeHeader", "txCount", "decodeGethReceiptFromRPC",
   "ComputeReceiptsRootByHash", "waitForBlockHashByNumber", "waitForBlockHashVisible",
   "computeReceiptsRootByHashWithRetry", "decodePush", "MarshalAttestationJSON",
   "loadHerumiSK", "signTwice", "SendExitRequest",
   "ComputeWithdrawalCredentialsFromEth1"}
CallInputs(f) ==
  CASE f = "parseUint64JSON" -> RawNumbers
    [] f = "DecodeHeader" -> Headers
    [] f = "decodeGethReceiptFromRPC" -> RawReceipts
    [] f = "ComputeReceiptsRootByHash" -> RootInputs
    [] f = "txCount" -> Bodies
    [] f = "decodePush" -> [header : Headers, body : Bodies]
    [] f = "MarshalAttestationJSON" -> Attestations
    [] f = "loadHerumiSK" -> SecretTexts
    [] f = "signTwice" -> [secret : SecretTexts, msg : Messages]
    [] f = "waitForBlockHashByNumber" -> ByNumberInputs
    [] f = "waitForBlockHashVisible" -> VisibleInputs
    [] f = "computeReceiptsRootByHashWithRetry" -> WithRetryInputs
    [] f = "SendExitRequest" -> ExitEnvs
    [] f = "ComputeWithdrawalCredentialsFromEth1" -> AddressTexts

CallInit ==
  /\ secret = ValidSecret /\ retryMax = DefaultRetryMax
  /\ NotStarted /\ NoProgram /\ NoBatch /\ NoSend
  /\ fn \in CallNames
  /\ arg \in CallInputs(fn)
  /\ res = NoRes

Returns(f, out) ==
  /\ fn = f
  /\ ~res.returned
  /\ res' = [returned |-> TRUE, out |-> out]
  /\ UNCHANGED <<fn, arg, cfgVars, runVars, connVars, localVars, pushVars, pc, cancelled,
                 onceVars, batchVars, sendVars>>

CallParseUint64JSON == Returns("parseUint64JSON", parseUint64JSON(arg))
CallDecodeHeader == Returns("DecodeHeader", DecodeHeader(arg))
CallDecodeGethReceiptFromRPC ==
  Returns("decodeGethReceiptFromRPC", decodeGethReceiptFromRPC(arg))
CallComputeReceiptsRootByHash ==
  Returns("ComputeReceiptsRootByHash", ComputeReceiptsRootByHash(arg.block, arg.answers))

\* Lines 241-307 of runOnce for a push whose result decoded: the identity, the
\* transaction count (not reached without identity) and the lines logged.
decodePush(h, b) ==
  [id |-> DecodeHeader(h),
   txCount |-> IF DecodeHeader(h).ok THEN TxCountOf(b) ELSE 0,
   log |-> HeaderLog(h)]
CallDecodePush == Returns("decodePush", decodePush(arg.header, arg.body))

CallMarshalAttestationJSON ==
  Returns("MarshalAttestationJSON", MarshalAttestationJSON(arg))

\* Key loading, with what BLSPubKeyHex and BLSSign make of the same secret.
CallLoadHerumiSK ==
  Returns("loadHerumiSK",
          [key |-> loadHerumiSK(arg), pub |-> BLSPubKeyHex(arg),
           signed |-> BLSSign(arg, <<>>)])
\* Two invocations of BLSSign, and BLSPubKeyHex, with the same secret.
CallSignTwice ==
  Returns("signTwice",
          [first |-> BLSSign(arg.secret, arg.msg), second |-> BLSSign(arg.secret, arg.msg),
           pub |-> BLSPubKeyHex(arg.secret)])

\* Lines 301-307 of runOnce.
CallTxCount == Returns("txCount", TxCountOf(arg))
CallWaitForBlockHashByNumber ==
  Returns("waitForBlockHashByNumber",
          waitForBlockHashByNumber(arg.number, arg.timeout, arg.interval, arg.env))
CallWaitForBlockHashVisible ==
  Returns("waitForBlockHashVisible",
          waitForBlockHashVisible(arg.hash, arg.timeout, arg.interval, arg.env))
CallComputeReceiptsRootByHashWithRetry ==
  Returns("computeReceiptsRootByHashWithRetry",
          computeReceiptsRootByHashWithRetry(arg.hash, arg.timeout, arg.interval,
                                             arg.txCount, arg.env))

CallComputeWithdrawalCredentialsFromEth1 ==
  Returns("ComputeWithdrawalCredentialsFromEth1", ComputeWithdrawalCredentialsFromEth1(arg))
CallSendExitRequest == Returns("SendExitRequest", SendExitRequest(arg))

CallNext ==
  \/ CallTxCount
  \/ CallWaitForBlockHashByNumber
  \/ CallWaitForBlockHashVisible
  \/ CallComputeReceiptsRootByHashWithRetry
  \/ CallParseUint64JSON
  \/ CallDecodeHeader
  \/ CallDecodeGethReceiptFromRPC
  \/ CallComputeReceiptsRootByHash
  \/ CallDecodePush
  \/ CallMarshalAttestationJSON
  \/ CallLoadHerumiSK
  \/ CallSignTwice
  \/ CallSendExitRequest
  \/ CallComputeWithdrawalCredentialsFromEth1

CallSpec == CallInit /\ [][CallNext]_vars

(***************************************************************************)
(* The programs that use the BLS library, and its one-time initialization  *)
(* (OnceSpec).                                                             *)
(***************************************************************************)
NumCallers == 2   \* goroutines beside main
MaxCalls == 2     \* calls of ComputeDepositSignatureAndRoot each of them makes

Main == 0
Callers == 1 .. NumCallers
Goroutines == {Main} \cup Callers

Repeat(c, n) == [i \in 1 .. n |-> c]

\* The calls of main that reach the library, in program order.  "callers" is
\* a program whose goroutines call the deposit package with no call of main
\* before them; "validator" is a program that links package attest, whose
\* init() runs before main.
MainCalls(p) ==
  CASE p = "deposit-batch" -> <<"EnsureBLS", "runConcurrent">>
    [] p = "deposit-send" ->
         <<"bls.Init", "SetHexString", "ComputeDepositSignatureAndRoot">>
    [] p = "deposit-sig-tamper" -> <<"ComputeDepositSignatureAndRoot">>
    [] p = "validator" -> <<"bls.Init", "BLSSign">>
    [] p = "callers" -> <<>>

Programs ==
  {"deposit-batch", "deposit-send", "deposit-sig-tamper", "validator", "callers"}

\* The calls that are one key operation and nothing else.
KeyCalls == {"SetHexString", "BLSSign"}

runnerVars == <<cfgVars, runVars, connVars, localVars, pushVars, pc, cancelled>>

OnceInit ==
  /\ secret = ValidSecret /\ retryMax = DefaultRetryMax
  /\ NotStarted /\ NoCall /\ NoBatch /\ NoSend
  /\ program \in Programs
  /\ todo = [g \in Goroutines |->
               IF g = Main THEN MainCalls(program)
               ELSE IF program = "callers"
                 THEN Repeat("ComputeDepositSignatureAndRoot", MaxCalls)
                 ELSE <<>>]
  /\ at = [g \in Goroutines |-> "idle"]
  /\ onceDone = 0 /\ onceM = NoHolder /\ lib = "none" /\ initRuns = 0
  /\ keyOps = [run |-> 0, early |-> 0]

\* The goroutine enters its next call.
Call(g) ==
  /\ at[g] = "idle"
  /\ todo[g] # <<>>
  /\ Head(todo[g]) # "runConcurrent"
  /\ at' = [at EXCEPT ![g] =
              IF Head(todo[g]) = "bls.Init" THEN "init"
              ELSE IF Head(todo[g]) \in KeyCalls THEN "keyop"
              ELSE "load"]
  /\ UNCHANGED <<program, todo, onceDone, onceM, lib, initRuns, keyOps>>
  /\ UNCHANGED <<runnerVars, callVars, batchVars, sendVars>>

\* main starts the workers; each calls handleOne for the tasks it receives.
RunConcurrent ==
  /\ at[Main] = "idle"
  /\ todo[Main] # <<>>
  /\ Head(todo[Main]) = "runConcurrent"
  /\ todo' = [g \in Goroutines |->
                IF g = Main THEN Tail(todo[Main])
                ELSE Repeat("ComputeDepositSignatureAndRoot", MaxCalls)]
  /\ UNCHANGED <<program, at, onceDone, onceM, lib, initRuns, keyOps>>
  /\ UNCHANGED <<runnerVars, callVars, batchVars, sendVars>>

\* EnsureBLS returns: to main, or into ComputeDepositSignatureAndRoot, which
\* goes on to its key operations.
EnsureReturns(g) ==
  IF Head(todo[g]) = "EnsureBLS"
    THEN at' = [at EXCEPT ![g] = "idle"] /\ todo' = [todo EXCEPT ![g] = Tail(@)]
    ELSE at' = [at EXCEPT ![g] = "keyop"] /\ UNCHANGED todo

\* Once.Do: if o.done.Load() == 0 { o.doSlow(f) }
OnceLoad(g) ==
  /\ at[g] = "load"
  /\ IF onceDone = 0
       THEN at' = [at EXCEPT ![g] = "lock"] /\ UNCHANGED todo
       ELSE EnsureReturns(g)
  /\ UNCHANGED <<program, onceDone, onceM, lib, initRuns, keyOps>>
  /\ UNCHANGED <<runnerVars, callVars, batchVars, sendVars>>

\* doSlow: o.m.Lock()
OnceLock(g) ==
  /\ at[g] = "lock"
  /\ onceM = NoHolder
  /\ onceM' = g
  /\ at' = [at EXCEPT ![g] = "check"]
  /\ UNCHANGED <<program, todo, onceDone, lib, initRuns, keyOps>>
  /\ UNCHANGED <<runnerVars, callVars, batchVars, sendVars>>

\* doSlow: if o.done.Load() == 0 { defer o.done.Store(1); f() }
OnceCheck(g) ==
  /\ at[g] = "check"
  /\ at' = [at EXCEPT ![g] = IF onceDone = 0 THEN "init" ELSE "unlock"]
  /\ UNCHANGED <<program, todo, onceDone, onceM, lib, initRuns, keyOps>>
  /\ UNCHANGED <<runnerVars, callVars, batchVars, sendVars>>

\* bls.Init is entered: the library's parameters are being written.
InitBegin(g) ==
  /\ at[g] = "init"
  /\ lib' = "running"
  /\ initRuns' = initRuns + 1
  /\ at' = [at EXCEPT ![g] = "initEnd"]
  /\ UNCHANGED <<program, todo, onceDone, onceM, keyOps>>
  /\ UNCHANGED <<runnerVars, callVars, batchVars, sendVars>>

\* bls.Init returns: to the caller that called it directly, or to doSlow.
InitEnd(g) ==
  /\ at[g] = "initEnd"
  /\ lib' = "ready"
  /\ IF Head(todo[g]) = "bls.Init"
       THEN at' = [at EXCEPT ![g] = "idle"] /\ todo' = [todo EXCEPT ![g] = Tail(@)]
       ELSE at' = [at EXCEPT ![g] = "store"] /\ UNCHANGED todo
  /\ UNCHANGED <<program, onceDone, onceM, initRuns, keyOps>>
  /\ UNCHANGED <<runnerVars, callVars, batchVars, sendVars>>

\* The deferred o.done.Store(1); it runs before the deferred Unlock.
OnceStore(g) ==
  /\ at[g] = "store"
  /\ onceDone' = 1
  /\ at' = [at EXCEPT ![g] = "unlock"]
  /\ UNCHANGED <<program, todo, onceM, lib, initRuns, keyOps>>
  /\ UNCHANGED <<runnerVars, callVars, batchVars, sendVars>>

\* The deferred o.m.Unlock(); Do returns, and EnsureBLS with it.
OnceUnlock(g) ==
  /\ at[g] = "unlock"
  /\ onceM' = NoHolder
  /\ EnsureReturns(g)
  /\ UNCHANGED <<program, onceDone, lib, initRuns, keyOps>>
  /\ UNCHANGED <<runnerVars, callVars, batchVars, sendVars>>

\* A key operation: SetHexString and SignByte of ComputeDepositSignatureAndRoot,
\* SetHexString and GetPublicKey of main, BLSSign of package attest.
KeyOp(g) ==
  /\ at[g] = "keyop"
  /\ keyOps' = [run |-> keyOps.run + 1,
                early |-> keyOps.early + (IF lib = "ready" THEN 0 ELSE 1)]
  /\ at' = [at EXCEPT ![g] = "idle"]
  /\ todo' = [todo EXCEPT ![g] = Tail(@)]
  /\ UNCHANGED <<program, onceDone, onceM, lib, initRuns>>
  /\ UNCHANGED <<runnerVars, callVars, batchVars, sendVars>>

OnceNext ==
  \/ RunConcurrent
  \/ \E g \in Goroutines :
       \/ Call(g)
       \/ OnceLoad(g)
       \/ OnceLock(g)
       \/ OnceCheck(g)
       \/ InitBegin(g)
       \/ InitEnd(g)
       \/ OnceStore(g)
       \/ OnceUnlock(g)
       \/ KeyOp(g)

OnceSpec == OnceInit /\ [][OnceNext]_vars

(***************************************************************************)
(* runConcurrent of the batch deposit program (BatchSpec).                 *)
(***************************************************************************)
MaxTasks == 3     \* len(tasks) at most
MaxWorkers == 2   \* -workers at most, beside the value that selects the default

DefaultWorkers == 4
WorkerFlags == 0 .. MaxWorkers
NoTask == -1

Workers == 1 .. workers
WorkerIds == 1 .. Max(MaxWorkers, DefaultWorkers)

\* After the goroutines have been started: every worker and main wait on
\* their channel, nothing has been handed over.
BatchInit ==
  /\ secret = ValidSecret /\ retryMax = DefaultRetryMax
  /\ NotStarted /\ NoCall /\ NoProgram /\ NoSend
  /\ nTasks \in 1 .. MaxTasks
  /\ \E flag \in WorkerFlags : workers = IF flag <= 0 THEN DefaultWorkers ELSE flag
  /\ orderedOutput \in BOOLEAN
  /\ fed = 0 /\ inClosed = FALSE /\ outClosed = FALSE
  /\ wg = workers
  /\ wk = [w \in Workers |-> [at |-> "recv", task |-> NoTask, failed |-> FALSE]]
  /\ mpc = "recv"
  /\ buf = <<>> /\ next = 0 /\ okCount = 0 /\ failCount = 0 /\ printed = <<>>

\* printResult(r) and the counting that follows it.
PrintAndCount(idx, failed) ==
  /\ printed' = Append(printed, idx)
  /\ okCount' = okCount + (IF failed THEN 0 ELSE 1)
  /\ failCount' = failCount + (IF failed THEN 1 ELSE 0)

\* in <- t meets a worker's range in: the channel has no buffer.
Feed(w) ==
  /\ w \in Workers
  /\ fed < nTasks
  /\ wk[w].at = "recv"
  /\ wk' = [wk EXCEPT ![w] = [at |-> "handle", task |-> fed, failed |-> FALSE]]
  /\ fed' = fed + 1
  /\ UNCHANGED <<nTasks, workers, orderedOutput, inClosed, outClosed, wg, mpc,
                 buf, next, okCount, failCount, printed>>
  /\ UNCHANGED <<runnerVars, callVars, onceVars, sendVars>>

\* close(in), after the last task has been handed over.
CloseIn ==
  /\ fed = nTasks
  /\ ~inClosed
  /\ inClosed' = TRUE
  /\ UNCHANGED <<nTasks, workers, orderedOutput, fed, outClosed, wg, wk, mpc,
                 buf, next, okCount, failCount, printed>>
  /\ UNCHANGED <<runnerVars, callVars, onceVars, sendVars>>

\* handleOne returns the task's Result, with or without Err.
HandleOne(w) ==
  /\ w \in Workers
  /\ wk[w].at = "handle"
  /\ \E failed \in BOOLEAN :
       wk' = [wk EXCEPT ![w] = [at |-> "send", task |-> wk[w].task, failed |-> failed]]
  /\ UNCHANGED <<nTasks, workers, orderedOutput, fed, inClosed, outClosed, wg, mpc,
                 buf, next, okCount, failCount, printed>>
  /\ UNCHANGED <<runnerVars, callVars, onceVars, sendVars>>

\* Variant: the ordered branch prints a result when it arrives.
Send_PrintsOnArrival(w) ==
  /\ w \in Workers
  /\ wk[w].at = "send"
  /\ mpc = "recv"
  /\ ~outClosed
  /\ wk' = [wk EXCEPT ![w] = [at |-> "recv", task |-> NoTask, failed |-> FALSE]]
  /\ PrintAndCount(wk[w].task, wk[w].failed)
  /\ UNCHANGED <<mpc, buf, next>>
  /\ UNCHANGED <<nTasks, workers, orderedOutput, fed, inClosed, outClosed, wg>>
  /\ UNCHANGED <<runnerVars, callVars, onceVars, sendVars>>

\* out <- res meets range out of main: without ordered output main prints
\* and counts at once, with it main stores the result in buf and goes to
\* the inner loop.
Send(w) ==
  /\ w \in Workers
  /\ wk[w].at = "send"
  /\ mpc = "recv"
  /\ ~outClosed
  /\ wk' = [wk EXCEPT ![w] = [at |-> "recv", task |-> NoTask, failed |-> FALSE]]
  /\ IF orderedOutput
       THEN /\ buf' = (wk[w].task :> wk[w].failed) @@ buf
            /\ mpc' = "drain"
            /\ UNCHANGED <<next, okCount, failCount, printed>>
       ELSE /\ PrintAndCount(wk[w].task, wk[w].failed)
            /\ UNCHANGED <<mpc, buf, next>>
  /\ UNCHANGED <<nTasks, workers, orderedOutput, fed, inClosed, outClosed, wg>>
  /\ UNCHANGED <<runnerVars, callVars, onceVars, sendVars>>

\* One turn of the inner loop: print buf[next] and go on, or break.
Drain ==
  /\ mpc = "drain"
  /\ IF next \in DOMAIN buf
       THEN /\ PrintAndCount(next, buf[next])
            /\ buf' = [i \in DOMAIN buf \ {next} |-> buf[i]]
            /\ next' = next + 1
            /\ UNCHANGED mpc
       ELSE /\ mpc' = "recv"
            /\ UNCHANGED <<buf, next, okCount, failCount, printed>>
  /\ UNCHANGED <<nTasks, workers, orderedOutput, fed, inClosed, outClosed, wg, wk>>
  /\ UNCHANGED <<runnerVars, callVars, onceVars, sendVars>>

\* range in ends for a worker: its deferred wg.Done() runs.
WorkerDone(w) ==
  /\ w \in Workers
  /\ wk[w].at = "recv"
  /\ inClosed
  /\ wk' = [wk EXCEPT ![w] = [at |-> "done", task |-> NoTask, failed |-> FALSE]]
  /\ wg' = wg - 1
  /\ UNCHANGED <<nTasks, workers, orderedOutput, fed, inClosed, outClosed, mpc,
                 buf, next, okCount, failCount, printed>>
  /\ UNCHANGED <<runnerVars, callVars, onceVars, sendVars>>

\* wg.Wait() returns and close(out) runs.
CloseOut ==
  /\ wg = 0
  /\ ~outClosed
  /\ outClosed' = TRUE
  /\ UNCHANGED <<nTasks, workers, orderedOutput, fed, inClosed, wg, wk, mpc,
                 buf, next, okCount, failCount, printed>>
  /\ UNCHANGED <<runnerVars, callVars, onceVars, sendVars>>

\* range out ends for main: it logs the counters and returns.
Finish ==
  /\ mpc = "recv"
  /\ outClosed
  /\ mpc' = "done"
  /\ UNCHANGED <<nTasks, workers, orderedOutput, fed, inClosed, outClosed, wg, wk,
                 buf, next, okCount, failCount, printed>>
  /\ UNCHANGED <<runnerVars, callVars, onceVars, sendVars>>

BatchNext ==
  \/ CloseIn
  \/ Drain
  \/ CloseOut
  \/ Finish
  \/ \E w \in WorkerIds :
       \/ Feed(w)
       \/ HandleOne(w)
       \/ Send(w)
       \/ WorkerDone(w)

BatchSpec == BatchInit /\ [][BatchNext]_vars

\* A goroutine that can run is run: the Go scheduler starves none.
FairBatchSpec ==
  /\ BatchSpec
  /\ WF_vars(CloseIn) /\ WF_vars(Drain) /\ WF_vars(CloseOut) /\ WF_vars(Finish)
  /\ \A w \in WorkerIds :
       WF_vars(Feed(w)) /\ WF_vars(HandleOne(w)) /\ WF_vars(Send(w)) /\ WF_vars(WorkerDone(w))

(***************************************************************************)
(* SendDepositsConcurrently (SendSpec).  The caller ranges over the        *)
(* channel it got back.                                                    *)
(***************************************************************************)
MaxItems == 2     \* len(items) at most
MaxPool == 2      \* workers at most, beside the value that selects the default

DefaultPool == 4
PoolIds == 1 .. Max(MaxPool, DefaultPool)
NoItem == 0

\* The call has returned: its goroutines are started, nothing is handed over.
SendInit ==
  /\ secret = ValidSecret /\ retryMax = DefaultRetryMax
  /\ NotStarted /\ NoCall /\ NoProgram /\ NoBatch
  /\ items \in 0 .. MaxItems
  /\ \E flag \in 0 .. MaxPool : pool = IF flag <= 0 THEN DefaultPool ELSE flag
  /\ handed = 0 /\ inDone = FALSE /\ outDone = FALSE
  /\ sw = [w \in 1 .. pool |-> [at |-> "recv", item |-> NoItem]]
  /\ delivered = <<>>
  /\ panicked = FALSE

\* in <- it meets a worker's range in.
HandOver(w) ==
  /\ ~panicked
  /\ w \in DOMAIN sw
  /\ handed < items
  /\ sw[w].at = "recv"
  /\ sw' = [sw EXCEPT ![w] = [at |-> "call", item |-> handed + 1]]
  /\ handed' = handed + 1
  /\ UNCHANGED <<items, pool, inDone, outDone, delivered, panicked>>
  /\ UNCHANGED <<runnerVars, callVars, onceVars, batchVars>>

\* close(in), after the last item has been handed over.
CloseInput ==
  /\ ~panicked
  /\ handed = items
  /\ ~inDone
  /\ inDone' = TRUE
  /\ UNCHANGED <<items, pool, handed, outDone, sw, delivered, panicked>>
  /\ UNCHANGED <<runnerVars, callVars, onceVars, batchVars>>

\* The deferred close(out) of the goroutine that hands the items over: it
\* runs when that goroutine returns, right after close(in).
CloseOutput ==
  /\ ~panicked
  /\ inDone
  /\ ~outDone
  /\ outDone' = TRUE
  /\ UNCHANGED <<items, pool, handed, inDone, sw, delivered, panicked>>
  /\ UNCHANGED <<runnerVars, callVars, onceVars, batchVars>>

\* c.SendDeposit returns, with a result or an error.
SendDepositReturns(w) ==
  /\ ~panicked
  /\ w \in DOMAIN sw
  /\ sw[w].at = "call"
  /\ sw' = [sw EXCEPT ![w].at = "send"]
  /\ UNCHANGED <<items, pool, handed, inDone, outDone, delivered, panicked>>
  /\ UNCHANGED <<runnerVars, callVars, onceVars, batchVars>>

\* out <- DepositResult{...} meets the caller's receive.
Deliver(w) ==
  /\ ~panicked
  /\ w \in DOMAIN sw
  /\ sw[w].at = "send"
  /\ ~outDone
  /\ delivered' = Append(delivered, sw[w].item)
  /\ sw' = [sw EXCEPT ![w] = [at |-> "recv", item |-> NoItem]]
  /\ UNCHANGED <<items, pool, handed, inDone, outDone, panicked>>
  /\ UNCHANGED <<runnerVars, callVars, onceVars, batchVars>>

\* out <- DepositResult{...} on the closed channel: send on closed channel
\* panics, whether the worker arrives at the send after the close or waits in
\* it when the close runs.
SendOnClosed(w) ==
  /\ ~panicked
  /\ w \in DOMAIN sw
  /\ sw[w].at = "send"
  /\ outDone
  /\ panicked' = TRUE
  /\ UNCHANGED <<items, pool, handed, inDone, outDone, sw, delivered>>
  /\ UNCHANGED <<runnerVars, callVars, onceVars, batchVars>>

\* range in ends for a worker.
WorkerReturns(w) ==
  /\ ~panicked
  /\ w \in DOMAIN sw
  /\ sw[w].at = "recv"
  /\ inDone
  /\ sw' = [sw EXCEPT ![w] = [at |-> "done", item |-> NoItem]]
  /\ UNCHANGED <<items, pool, handed, inDone, outDone, delivered, panicked>>
  /\ UNCHANGED <<runnerVars, callVars, onceVars, batchVars>>

SendNext ==
  \/ CloseInput
  \/ CloseOutput
  \/ \E w \in PoolIds :
       \/ HandOver(w)
       \/ SendDepositReturns(w)
       \/ Deliver(w)
       \/ SendOnClosed(w)
       \/ WorkerReturns(w)

SendSpec == SendInit /\ [][SendNext]_vars

(***************************************************************************)
(* Claims.                                                                 *)
(***************************************************************************)
StreamPcs ==
  {"loop", "read", "wait_hash", "wait_num", "wait_root", "backfill", "sign", "submit"}
    \cup SleepPcs
\* The per-push failures claim C2 lists.
PushFailures ==
  {"bad_push", "no_identity", "resolve_timeout", "root_timeout", "sign_failed", "submit_failed"}
Count(seq, x) == Cardinality({i \in DOMAIN seq : seq[i] = x})
IsPrefix(p, q) == Len(p) <= Len(q) /\ SubSeq(q, 1, Len(p)) = p
StagesNumber == <<"decode", "resolve", "root", "encode", "sign", "submit">>
StagesHash == <<"decode", "resolve", "root", "backfill", "encode", "sign", "submit">>

\* C1: a new attempt after a failed one starts only from the retry wait and only
\* while the attempts made so far, all failed, number at most RetryMax (5 when
\* the configured value is <= 0); once RetryMax + 1 attempts have failed the
\* Runner returns 'max retries reached' and makes no further attempt.
C1_RetryBudget ==
  /\ [](pc # "start" =>
          /\ retryMax >= 1
          /\ attempts <= retryMax + 1
          /\ (result = "maxretries" => pc = "done" /\ attempts = retryMax + 1))
  /\ [][ /\ retryMax' = (IF pc = "start" /\ pc' # "start" /\ retryMax <= 0 THEN 5 ELSE retryMax)
         /\ (attempts' # attempts /\ attempts >= 1) =>
              /\ pc = "retry_wait" /\ attempts' = attempts + 1
              /\ attempts <= retryMax
         /\ (pc = "ret" /\ pc' # "ret" /\ ~cancelled /\ attempts > retryMax) =>
              /\ pc' = "done" /\ result' = "maxretries"
         /\ pc = "done" => attempts' = attempts ]_vars

C1_Witness ==
  result = "maxretries" /\ retryMax = DefaultRetryMax /\ attempts = DefaultRetryMax + 1

\* C2 as stated: after a per-push failure the connection stays open, runOnce has
\* not returned and the Runner is at the loop head or reading the next message.
C2_NextIsRead ==
  status \in PushFailures => pc \in {"loop", "read"} /\ connOpen /\ conn = cur.conn

\* C2, amended: a per-push failure leaves the connection open and the retry
\* budget untouched and takes the Runner to the loop head; from there it reads
\* the next message on the same connection unless ctx is done by then, in which
\* case runOnce returns the cancellation error.
C2_FailureKeepsStreaming ==
  [][ /\ (status' \in PushFailures /\ status \notin PushFailures) =>
           /\ pc' = "loop" /\ connOpen' /\ conn' = conn /\ cur'.conn = conn
           /\ retries' = retries /\ attempts' = attempts /\ err' = err
      /\ (status \in PushFailures /\ pc = "loop" /\ pc' # "loop") =>
           IF cancelled
             THEN pc' = "ret" /\ err' = "ctx" /\ retries' = retries
             ELSE pc' = "read" /\ connOpen' /\ conn' = conn /\ retries' = retries ]_vars

C2_Witness ==
  status = "resolve_timeout" /\ pc = "loop" /\ ~cancelled /\ connOpen /\ pushId = 2

\* C3: after a failed read with retry budget left and ctx not done, runOnce
\* is called again; on every connection the subscribe request is written
\* before any push is read, and a push is processed on the connection it was
\* read on.
C3_Reconnect ==
  /\ (pc = "ret" /\ err = "read" /\ ~cancelled /\ retries < retryMax)
       ~> (pc = "dial" \/ cancelled)
  /\ [](pc \in StreamPcs => connOpen /\ subSent /\ conn = attempts)
  /\ [](status = "processing" => cur.conn = conn /\ cur.id = pushId)

C3_Witness ==
  status = "attested" /\ cur.conn = 2 /\ cur.id = 2 /\ subs = <<1, 2>>

\* C4: once ctx is done the Runner calls runOnce no more and opens no
\* connection, and when it returns it returns the cancellation error.
C4_NoRetryAfterCancel ==
  [][ (cancelled /\ pc # "start") =>
        /\ attempts' = attempts
        /\ conn' = conn
        /\ (pc # "done" /\ pc' = "done" => result' = "ctx") ]_vars

C4_Witness ==
  result = "ctx" /\ status \in {"resolve_ctx", "root_ctx"} /\ retries = 0

\* C5: when ctx is done while the Runner is blocked in the read, the Runner can
\* go on by itself, without a message or a transport event.
C5_ReadAborted ==
  (pc = "read" /\ cancelled) => ENABLED RunnerStep

\* C6: SubmitVerification is called at most once per push read, for the push
\* being processed, on the connection the push was read on.
C6_SubmitOnce ==
  /\ \A i \in DOMAIN subs : subs[i] \in 1..pushId /\ Count(subs, subs[i]) = 1
  /\ sub.push # 0 => sub.push = cur.id /\ sub.readOn = sub.sentOn /\ Count(subs, cur.id) = 1
  /\ pc = "submit" => Count(subs, cur.id) = 0 /\ cur.conn = conn

C6_Witness ==
  status = "submit_failed" /\ subs = <<1, 2>> /\ cur.conn = 2 /\ pc = "loop"

\* C7: the next message is read only when no push is being processed, the
\* push being processed is the last one read, and submissions are made in the
\* order the pushes were read.
C7_OneAtATime ==
  /\ [](/\ status = "processing" => cur.id = pushId /\ pc \notin {"loop", "read"}
        /\ \A i, j \in DOMAIN subs : i < j => subs[i] < subs[j])
  /\ [][ /\ pushId' # pushId => pc = "read" /\ status = "none" /\ pushId' = pushId + 1
         /\ pc' = "read" => status' # "processing" ]_vars

C7_Witness ==
  pc \in SleepPcs /\ pushId = 2 /\ subs = <<1>> /\ status = "processing"

\* C8: the stages of a push run in the order decode, resolve, root, (slot
\* back-fill,) encode, sign, submit, and what is submitted is a signature over
\* the encoding of the attestation built for that push.
C8_StageOrder ==
  /\ IsPrefix(trace, StagesNumber) \/ IsPrefix(trace, StagesHash)
  /\ sub.push # 0 =>
       /\ trace \in {StagesNumber, StagesHash}
       /\ sub.push = cur.id
       /\ sub.sig = BLSSign(secret, MarshalAttestationJSON(sub.att)).sig
       /\ ~sub.att.receipts_root.zero

C8_Witness ==
  sub.push # 0 /\ trace = StagesHash /\ sub.att.receipts_root # EmptyTrieRoot

\* C9: every submission carries the slot and the hash of the same block.
C9_SameBlock ==
  sub.push # 0 => sub.hash \in KnownHashes /\ sub.att.slot = NumberOfHash(sub.hash)

\* C10: a push with a decodable number n, committee index c and no
\* transactions, whose block was found by number, gets exactly one submission:
\* slot n, committee_index c, the empty-trie root, the hash of block n.
C10_EmptyBlockAttested ==
  (cur.src = "number" /\ cur.tx = 0 /\ Len(trace) >= 2) =>
    IF pc \in {"wait_root", "sign", "submit"}
      THEN Count(subs, cur.id) = 0 /\ status = "processing"
      ELSE /\ Count(subs, cur.id) = 1
           /\ sub.push = cur.id
           /\ sub.att = [slot |-> cur.num, committee_index |-> cur.cidx,
                         receipts_root |-> EmptyTrieRoot]
           /\ sub.hash = BlockHash(cur.num)

C10_Witness ==
  /\ status = "attested" /\ cur.src = "number" /\ cur.tx = 0
  /\ sub.att = [slot |-> 1, committee_index |-> 1, receipts_root |-> EmptyTrieRoot]
  /\ sub.hash = BlockHash(1)

\* C13: in the hash branch the wait hands on the hash of the push and only
\* when a by-hash query for it succeeded (the execution layer knows it, ctx is
\* alive); the receipts root is asked for only after that; and a wait that
\* times out ends the push with nothing computed, signed or submitted.
C13_VisibleBeforeRoot ==
  /\ [](/\ (branch = "hash" /\ pc \in {"wait_root", "sleep_root"}) =>
             /\ trace = <<"decode", "resolve">>
             /\ hash = cur.hash /\ hash \in KnownHashes
        /\ (status = "resolve_timeout" /\ cur.hash # ZeroHash) =>
             /\ trace = <<"decode">> /\ root = ZeroRoot
             /\ sub = NoSub /\ Count(subs, cur.id) = 0)
  /\ [][ /\ (pc = "wait_hash" /\ pc' = "wait_root") =>
              hash' = hash /\ hash \in KnownHashes /\ ~cancelled
         /\ (pc = "wait_hash" /\ pc' \notin {"wait_hash", "wait_root", "sleep_hash"}) =>
              pc' = "loop" /\ status' = "resolve_timeout"
         /\ (branch' = "hash" /\ pc' = "wait_root" /\ pc # "wait_root") =>
              pc \in {"wait_hash", "sleep_root"} ]_vars

C13_Witness ==
  /\ pc = "sleep_root" /\ branch = "hash" /\ hash = BlockHash(MaxBlock)
  /\ trace = <<"decode", "resolve">> /\ pushId = 2

\* C18: a header in which neither shape has a number or a hash decodes to no
\* identity; the push that carries no identity ends where it was read, with no
\* block query, no receipts root, no signature and no submission, the
\* connection as it was, and the Runner back at the head of its loop, from
\* where it reads the next push unless ctx is done.
NothingPresent(h) ==
  h.aNum = NumAbsent /\ h.aHash = Absent /\ h.bNum = NumAbsent /\ h.bHash = Absent
NothingPresentIsNoIdentity ==
  \A h \in Headers : NothingPresent(h) => DecodeHeader(h) = NoIdentity
C18_NoIdentitySkipped ==
  /\ [](/\ NothingPresentIsNoIdentity
        /\ (cur.id # 0 /\ cur.src = "none") =>
             /\ pc \notin {"wait_hash", "wait_num", "wait_root", "backfill", "sign", "submit"}
                         \cup SleepPcs
             /\ trace = <<>> /\ root = ZeroRoot /\ sig = NoSig
             /\ sub = NoSub /\ Count(subs, cur.id) = 0
        /\ (status = "no_identity" /\ pc = "loop" /\ ~cancelled) => ENABLED LoopHead)
  /\ [][ (pc = "read" /\ pushId' = pushId + 1 /\ cur'.src = "none") =>
           /\ pc' = "loop" /\ status' \in {"no_identity", "bad_push"}
           /\ connOpen' = connOpen /\ conn' = conn /\ subs' = subs
           /\ attempts' = attempts /\ retries' = retries ]_vars

C18_Witness ==
  /\ status = "no_identity" /\ pc = "loop" /\ cur.id = 2 /\ cur.src = "none"
  /\ connOpen /\ ~cancelled /\ Len(subs) = 1

\* C22: a connection streams, and a push is read on it, only after the
\* subscribe request was written on it and a response without an error object
\* was read; a response with an error object makes runOnce return an error with
\* the connection closed and no push read on it, and RunWSValidator counts that
\* error as a retry unless ctx is done.
C22_SubscribedBeforeStreaming ==
  /\ [](/\ pc \in StreamPcs => connOpen /\ subSent /\ subResp = "ok"
        /\ (cur.id # 0 /\ cur.conn = conn) => subSent /\ subResp = "ok"
        /\ subResp = "error" =>
             /\ pc \notin StreamPcs /\ ~connOpen
             /\ cur.conn # conn /\ sub.readOn # conn)
  /\ [][ /\ pushId' # pushId => pc = "read" /\ subSent /\ subResp = "ok"
         /\ (pc \notin StreamPcs /\ pc' \in StreamPcs) =>
              pc = "sub_read" /\ subSent /\ pc' = "loop" /\ subResp' = "ok"
         /\ subResp' = "error" /\ subResp # "error" =>
              pc = "sub_read" /\ pc' = "ret" /\ err' = "subrpc" /\ pushId' = pushId
         /\ (pc = "ret" /\ pc' # "ret" /\ err = "subrpc" /\ ~cancelled) =>
              /\ retries' = retries + 1
              /\ pc' = IF retries + 1 > retryMax THEN "done" ELSE "retry_wait" ]_vars

C22_Witness ==
  /\ pc = "retry_wait" /\ subResp = "error" /\ err = "subrpc" /\ retries = 2
  /\ ~connOpen /\ conn = 2 /\ pushId = 1

\* C24: key material that does not load never makes RunWSValidator return: with
\* such a secret the Runner keeps running, and a push it cannot sign is skipped.
C24_BadKeyNotFatal ==
  ~loadHerumiSK(secret).ok =>
    /\ pc # "done" /\ result = "none"
    /\ status = "sign_failed" => pc \in StreamPcs \/ pc = "ret"

\* C25: a push starts from nothing and is worked on with what it carries and
\* what the execution layer answers for it: between two pushes slot, hash,
\* transaction count, root, attestation and signature hold nothing; reading a
\* push sets slot, hash and count from what was decoded from it (0 and the zero
\* hash for what it does not carry); afterwards the slot is the number of the
\* push or, for a push with a non-zero hash, 0 or the number the execution
\* layer has for that hash, and the hash is the hash of the push or the hash
\* the execution layer has for its number.
C25_NothingInherited ==
  /\ [](/\ pc \in {"loop", "read"} =>
             /\ slot = 0 /\ hash = ZeroHash /\ txCount = 0
             /\ root = ZeroRoot /\ att = NoAtt /\ sig = NoSig
        /\ status = "processing" =>
             /\ txCount = cur.tx
             /\ cur.hash = ZeroHash => slot = cur.num /\ hash \in {ZeroHash, BlockHash(cur.num)}
             /\ cur.hash # ZeroHash => hash = cur.hash /\ slot \in {0, NumberOfHash(cur.hash)}
             /\ sig # NoSig => sig.msg = MarshalAttestationJSON(att)
             /\ att # NoAtt => att = BuildAttestationData(slot, cur.cidx, root))
  /\ [][ pushId' # pushId =>
           /\ cur'.id = pushId'
           /\ status' = "processing" =>
                /\ slot' = cur'.num /\ hash' = cur'.hash /\ txCount' = cur'.tx
                /\ root' = ZeroRoot /\ att' = NoAtt /\ sig' = NoSig ]_vars

C25_Witness ==
  /\ pushId = 2 /\ Len(subs) = 1 /\ status = "processing" /\ pc = "sign"
  /\ cur.src = "hash" /\ cur.hash = BlockHash(0) /\ slot = 0 /\ hash = BlockHash(0)

(***************************************************************************)
(* Claims about the functions applied on their own (CallSpec).             *)
(***************************************************************************)
Called(f) == fn = f /\ res.returned
RECURSIVE SumDt(_, _)
SumDt(script, n) == IF n = 0 THEN 0 ELSE SumDt(script, n - 1) + script[n].dt
\* When the n-th query ends if ctx stays alive: n queries and n - 1 sleeps.
EndOfPoll(a, n) == SumDt(a.env.script, n) + (n - 1) * a.interval

\* C11: with txCount 0 computeReceiptsRootByHashWithRetry returns the
\* empty-trie root and no error and has issued no query, whatever the hash, the
\* timeout, the interval, the execution layer and ctx; lines 301-307 give a
\* push without a body, or with a body without a transactions list, the count 0.
C11_EmptyBlockShortCut ==
  /\ (Called("computeReceiptsRootByHashWithRetry") /\ arg.txCount = 0) =>
       /\ res.out.ok /\ res.out.err = "none"
       /\ res.out.val = EmptyTrieRoot
       /\ res.out.polls = 0
  /\ (Called("txCount") /\ arg.k # "list") => res.out = 0

C11_Witness ==
  /\ Called("computeReceiptsRootByHashWithRetry")
  /\ arg.txCount = 0 /\ arg.hash = UnknownHash /\ arg.env.cancelAt = 1
  /\ res.out.val = EmptyTrieRoot /\ res.out.polls = 0

\* C12 as stated: waitForBlockHashByNumber, ctx staying alive and the timeout
\* not zero, returns either the hash found by a query issued within the
\* deadline, or the timeout error.
C12_FoundWithinDeadline ==
  (Called("waitForBlockHashByNumber") /\ arg.env.cancelAt = Never /\ arg.timeout > 0) =>
    IF res.out.ok
      THEN EndOfPoll(arg, res.out.polls) - arg.env.script[res.out.polls].dt <= arg.timeout
      ELSE res.out.err = "timeout" /\ res.out.val = ZeroHash

\* C12, amended: the queries before the last one all missed, each followed by
\* a sleep of the poll interval; a query that finds the block ends the wait
\* with that block's hash, also when it was issued after the deadline because
\* the sleep before it ran past it; the timeout error, with no hash, is
\* returned at the first miss that ends after the deadline; the cancellation
\* error, with no hash, only when ctx is done.
C12_FirstFoundOrTimeout ==
  Called("waitForBlockHashByNumber") =>
    LET o == res.out
        alive == arg.env.cancelAt = Never
    IN /\ o.polls \in 1..MaxRounds
       /\ alive => \A i \in 1..(o.polls - 1) :
                     /\ arg.env.script[i].ans # "found"
                     /\ EndOfPoll(arg, i) <= arg.timeout
       /\ alive => o.at = EndOfPoll(arg, o.polls) /\ o.err # "ctx"
       /\ o.ok => /\ arg.env.script[o.polls].ans = "found"
                  /\ o.val = BlockHash(arg.number) /\ o.err = "none"
       /\ ~o.ok => o.val = ZeroHash /\ o.err \in {"timeout", "ctx"}
       /\ o.err = "timeout" => o.at > arg.timeout
       /\ (alive /\ arg.env.script[o.polls].ans # "found") => o.err = "timeout"
       /\ o.err = "ctx" => o.at >= arg.env.cancelAt

C12_Witness ==
  /\ Called("waitForBlockHashByNumber") /\ arg.env.cancelAt = Never
  /\ res.out.ok /\ res.out.polls = MaxRounds
  /\ EndOfPoll(arg, res.out.polls) - arg.env.script[res.out.polls].dt > arg.timeout

\* One of the three waits has returned after polling.
PollingCalled ==
  \/ Called("waitForBlockHashByNumber")
  \/ Called("waitForBlockHashVisible")
  \/ Called("computeReceiptsRootByHashWithRetry") /\ arg.txCount > 0
\* The i-th query of the call, when ctx lets it finish, is a miss.
Missed(i) ==
  IF fn = "computeReceiptsRootByHashWithRetry"
    THEN LET v == RootView(arg.hash, arg.env.script[i].ans)
         IN ~ComputeReceiptsRootByHash(v.block, v.answers).ok
    ELSE arg.env.script[i].ans # "found"
\* ctx is done while the call sleeps after its j-th query.
CancelledInSleep(j) ==
  /\ \A i \in 1..j : Missed(i) /\ EndOfPoll(arg, i) <= arg.timeout
  /\ EndOfPoll(arg, j) < arg.env.cancelAt
  /\ arg.env.cancelAt < EndOfPoll(arg, j) + arg.interval

\* C14: when ctx is done while a wait sleeps after its j-th query, the wait
\* returns the cancellation error and no value at that moment, having issued
\* j queries, whether its deadline has passed or not.
C14_CancelEndsSleep ==
  PollingCalled =>
    \A j \in 1..MaxRounds :
      CancelledInSleep(j) =>
        /\ ~res.out.ok /\ res.out.err = "ctx"
        /\ res.out.polls = j
        /\ res.out.at = arg.env.cancelAt
        /\ res.out.val = (IF fn = "computeReceiptsRootByHashWithRetry" THEN ZeroRoot
                          ELSE ZeroHash)

C14_Witness ==
  /\ Called("computeReceiptsRootByHashWithRetry") /\ arg.txCount > 0
  /\ CancelledInSleep(1) /\ arg.env.cancelAt < arg.timeout
  /\ res.out.err = "ctx" /\ res.out.polls = 1 /\ res.out.at = arg.env.cancelAt

\* C15: computeReceiptsRootByHashWithRetry returns a root only from an attempt
\* in which the block and all its receipts were there.
C15_RootOnlyWhenIndexed ==
  (Called("computeReceiptsRootByHashWithRetry") /\ arg.txCount > 0 /\ res.out.ok) =>
    /\ arg.env.script[res.out.polls].ans = "indexed"
    /\ res.out.val = ReceiptsRootOfBlock(arg.hash)

C17_AbsentIsZero ==
  Called("decodeGethReceiptFromRPC") =>
    /\ res.out.ok
    /\ arg.status.k = "absent" => res.out.Status = 0
    /\ arg.cumulativeGasUsed.k = "absent" => res.out.CumulativeGasUsed = 0
    /\ arg.logs.k = "absent" => res.out.Logs = <<>>
    /\ arg.logsBloom.k = "absent" => res.out.Bloom = ZeroBloom
    /\ arg.transactionHash.k = "absent" => res.out.TxHash = NoTx
    /\ arg.blockHash.k = "absent" => res.out.BlockHash = ZeroHash
    /\ arg.contractAddress.k = "absent" => res.out.ContractAddress = ZeroAddress

\* C17, amended: decodeGethReceiptFromRPC never fails; a field that is absent,
\* or not of the expected form, leaves status at 1 and every other field at
\* zero or empty; a field that is there is taken over.
C17_AbsentIsDefault ==
  Called("decodeGethReceiptFromRPC") =>
    /\ res.out.ok
    /\ res.out.Status = (IF arg.status.k = "val" THEN arg.status.v ELSE 1)
    /\ res.out.CumulativeGasUsed =
         (IF arg.cumulativeGasUsed.k = "val" THEN arg.cumulativeGasUsed.v ELSE 0)
    /\ arg.logs.k # "val" => res.out.Logs = <<>>
    /\ arg.logs.k = "val" => Len(res.out.Logs) = Len(arg.logs.v)
    /\ res.out.Bloom = (IF arg.logsBloom.k = "val" THEN arg.logsBloom.v ELSE ZeroBloom)
    /\ res.out.TxHash = (IF arg.transactionHash.k = "val" THEN arg.transactionHash.v ELSE NoTx)
    /\ res.out.BlockHash = (IF arg.blockHash.k = "val" THEN arg.blockHash.v ELSE ZeroHash)
    /\ res.out.ContractAddress =
         (IF arg.contractAddress.k = "val" THEN arg.contractAddress.v ELSE ZeroAddress)

C17_Witness ==
  /\ Called("decodeGethReceiptFromRPC") /\ arg = NilReceiptJSON
  /\ res.out.ok /\ res.out.Status = 1 /\ res.out.CumulativeGasUsed = 0
  /\ res.out.Logs = <<>> /\ res.out.TxHash = NoTx

\* C19: a header neither of whose number fields parses gets an identity from a
\* hash field only when that field is 0x followed by 64 hexadecimal digits;
\* with every other value in the hash fields decoding fails.
NoParseableNumber(h) == ~parseUint64JSON(h.aNum).ok /\ ~parseUint64JSON(h.bNum).ok
C19_HashMustBeHex ==
  (Called("DecodeHeader") /\ arg.kind = "obj" /\ NoParseableNumber(arg)) =>
    (res.out.ok <=> (arg.aHash.k = "hash" \/ arg.bHash.k = "hash"))

\* C20: parseUint64JSON gives n and no error for the quoted 0x-hexadecimal, the
\* quoted decimal and the bare encoding of every unsigned value n, and the
\* number field of shape A and that of shape B of a header are read by it alike.
Encodings(n) == {QuotedHex(n), QuotedDec(n), BareNumber(n)}
FromNumber(n) == [ok |-> TRUE, slot |-> n, hash |-> ZeroHash, src |-> "number"]
C20_EveryEncodingSameValue ==
  /\ Called("parseUint64JSON") =>
       \A n \in Uints : arg \in Encodings(n) => res.out = [ok |-> TRUE, v |-> n]
  /\ (Called("DecodeHeader") /\ arg.kind = "obj") =>
       \A n \in Numbers :
         /\ arg.aNum \in Encodings(n) => res.out = FromNumber(n)
         /\ (/\ arg.aNum \in {NumAbsent, NotANumber} /\ arg.aHash.k \in {"absent", "bad"}
             /\ arg.bNum \in Encodings(n)) => res.out = FromNumber(n)

C20_Witness ==
  /\ Called("parseUint64JSON") /\ arg = QuotedHex(UintLimit - 1)
  /\ Len(arg.s) = 4 /\ res.out = [ok |-> TRUE, v |-> UintLimit - 1]

\* C21: the identity of a header comes from one shape: from shape A when shape A
\* holds a number that parses or a hash that is accepted, from shape B only
\* when shape A gave nothing; what the other shape holds changes nothing, and a
\* decoded identity is either a slot read from a number (no hash taken) or a
\* hash (no slot taken).
Yields(num, hsh) == parseUint64JSON(num).ok \/ hsh.k \in {"hash", "nonhex"}
IdentityOf(num, hsh) ==
  IF parseUint64JSON(num).ok THEN FromNumber(parseUint64JSON(num).v)
  ELSE [ok |-> TRUE, slot |-> 0, hash |-> hsh.v, src |-> "hash"]
C21_OneShape ==
  (Called("DecodeHeader") /\ arg.kind = "obj") =>
    /\ Yields(arg.aNum, arg.aHash) => res.out = IdentityOf(arg.aNum, arg.aHash)
    /\ (~Yields(arg.aNum, arg.aHash) /\ Yields(arg.bNum, arg.bHash)) =>
         res.out = IdentityOf(arg.bNum, arg.bHash)
    /\ (~Yields(arg.aNum, arg.aHash) /\ ~Yields(arg.bNum, arg.bHash)) => ~res.out.ok
    /\ res.out.ok =>
         \/ res.out.src = "number" /\ res.out.hash = ZeroHash
         \/ res.out.src = "hash" /\ res.out.slot = 0

C21_Witness ==
  /\ Called("DecodeHeader")
  /\ arg.aNum = NumAbsent /\ arg.aHash = [k |-> "hash", v |-> BlockHash(0)]
  /\ arg.bNum = QuotedDec(1) /\ arg.bHash = [k |-> "hash", v |-> BlockHash(1)]
  /\ res.out = [ok |-> TRUE, slot |-> 0, hash |-> BlockHash(0), src |-> "hash"]

\* C23: every step of the decoding of a push that fails leaves a log line: a
\* number that does not parse, a hash that is refused, a header without
\* identity, and a body that is there and does not decode.
Logged(line) == \E i \in DOMAIN res.out.log : res.out.log[i].line = line
C23_EveryFailureLogged ==
  Called("decodePush") =>
    /\ ~res.out.id.ok => Logged("insufficient fields")
    /\ (arg.header.aNum.k # "absent" /\ ~parseUint64JSON(arg.header.aNum).ok) =>
         Logged("number parse fail")
    /\ (res.out.id.ok /\ arg.body.k = "bad") => res.out.log # <<>>

\* C26: the encoding of an attestation reads back, piece by piece in the order
\* slot, committee_index, receipts_root, as the attestation it was made from
\* (so attestations that differ are encoded differently): each integer stands
\* unquoted in decimal right after its key, the root between quotes as 0x and
\* RootDigits lowercase hexadecimal digits, and the encoding holds nothing else
\* and no white space.
StartsAt(s, i, piece) ==
  i + Len(piece) - 1 <= Len(s) /\ SubSeq(s, i, i + Len(piece) - 1) = piece
RECURSIVE DecimalAt(_, _)
DecimalAt(s, i) ==
  IF i <= Len(s) /\ s[i] \in Range(DecChars) THEN <<s[i]>> \o DecimalAt(s, i + 1) ELSE <<>>
NotEncoded == [ok |-> FALSE]
ReadAttestation(s) ==
  LET p1 == Len(KeySlot) + 1
      d1 == DecimalAt(s, p1)
      p2 == p1 + Len(d1) + Len(KeyCommitteeIndex)
      d2 == DecimalAt(s, p2)
      p3 == p2 + Len(d2) + Len(KeyReceiptsRoot)
      h == SubSeq(s, p3, p3 + 1 + RootDigits)
  IN IF /\ StartsAt(s, 1, KeySlot) /\ d1 # <<>>
        /\ StartsAt(s, p1 + Len(d1), KeyCommitteeIndex) /\ d2 # <<>>
        /\ StartsAt(s, p2 + Len(d2), KeyReceiptsRoot)
        /\ StartsAt(s, p3, <<"0", "x">>)
        /\ Len(s) = p3 + 1 + RootDigits + Len(CloseObject)
        /\ StartsAt(s, p3 + 2 + RootDigits, CloseObject)
        /\ Range(SubSeq(h, 3, Len(h))) \subseteq Range(HexChars)
        /\ ValueOf(SubSeq(h, 3, Len(h)), 16) + 1 \in DOMAIN RootTable
       THEN [ok |-> TRUE, slot |-> ValueOf(d1, 10), committee_index |-> ValueOf(d2, 10),
             receipts_root |-> RootTable[ValueOf(SubSeq(h, 3, Len(h)), 16) + 1],
             canonical |-> d1 = Digits(ValueOf(d1, 10), 10) /\ d2 = Digits(ValueOf(d2, 10), 10)]
       ELSE NotEncoded
C26_CanonicalEncoding ==
  Called("MarshalAttestationJSON") =>
    /\ ReadAttestation(res.out) =
         [ok |-> TRUE, slot |-> arg.slot, committee_index |-> arg.committee_index,
          receipts_root |-> arg.receipts_root, canonical |-> TRUE]
    /\ Range(res.out) \cap {" ", "\t", "\n", "\r"} = {}
    /\ Range(res.out) \cap Range(UpperChars) = {}

C26_Witness ==
  /\ Called("MarshalAttestationJSON")
  /\ arg = [slot |-> UintLimit - 1, committee_index |-> 10, receipts_root |-> EmptyTrieRoot]
  /\ Len(res.out) = Len(KeySlot) + 2 + Len(KeyCommitteeIndex) + 2 + Len(KeyReceiptsRoot)
                      + 2 + RootDigits + Len(CloseObject)

\* C27: for a secret that is KeyBytes bytes of hexadecimal text, two BLSSign
\* invocations on the same message succeed with the same signature, a
\* signature of that message, and the same public key, and that key in
\* hexadecimal is what BLSPubKeyHex gives for the secret.
IsKeyText(s) ==
  /\ Len(TrimPrefix0x(s)) = 2 * KeyBytes
  /\ Range(TrimPrefix0x(s)) \subseteq Range(HexChars) \cup Range(UpperHex)
ByteAt(s, i) ==
  LET t == ToLower(TrimPrefix0x(s))
  IN 16 * DigitVal(t[2 * i - 1]) + DigitVal(t[2 * i])
C28_KeyLength ==
  Called("loadHerumiSK") =>
    IF IsKeyText(arg)
      THEN /\ res.out.key.ok /\ res.out.pub.ok /\ res.out.signed.ok
           /\ Len(res.out.key.sec) = KeyBytes
           /\ \A i \in 1..KeyBytes : res.out.key.sec[i] = ByteAt(arg, KeyBytes + 1 - i)
      ELSE /\ ~res.out.key.ok /\ res.out.key.sec = <<>> /\ res.out.key.pk = PublicKeyOf(<<>>)
           /\ ~res.out.pub.ok /\ res.out.pub.pk = KeyHex(PublicKeyOf(<<>>))
           /\ ~res.out.signed.ok /\ res.out.signed.sig = NoSig
           /\ res.out.signed.pk = PublicKeyOf(<<>>)

C28_Witness ==
  /\ Called("loadHerumiSK") /\ arg = ValidSecret \o <<"f", "f">>
  /\ ~res.out.key.ok /\ ~res.out.signed.ok

\* C29: the BLS library is initialized exactly once in the lifetime of a
\* process, whatever the number and the interleaving of the goroutines that
\* call first; a later call initializes nothing, and no key operation runs
\* before the initialization has completed.
C29_InitializedOnce ==
  /\ initRuns <= 1
  /\ keyOps.early = 0
  /\ \A g \in DOMAIN at : at[g] = "keyop" => lib = "ready"

Ascending(s) == \A i \in 1 .. Len(s) : s[i] = i - 1

\* C30: with ordered output, runConcurrent prints the result of every task
\* exactly once and in ascending order of the input index, whatever the order
\* in which the workers finish, and it returns after the last result with
\* ok + fail equal to the number of tasks, no worker left blocked.
C30_OrderedOutput ==
  /\ [](orderedOutput =>
          /\ Ascending(printed)
          /\ okCount + failCount = Len(printed)
          /\ mpc = "done" =>
               /\ Len(printed) = nTasks
               /\ \A w \in Workers : wk[w].at = "done"
               /\ inClosed /\ outClosed)
  /\ (orderedOutput ~> mpc = "done")

\* A result that arrived ahead of its turn is held back, after an earlier one
\* has been printed.
C30_Witness ==
  /\ orderedOutput
  /\ Len(printed) >= 1
  /\ \E i \in DOMAIN buf : i > next

\* C31: whenever SubmitVerification is called, the receipts_root submitted is
\* the root of the receipts the execution layer holds for the block of the
\* submitted hash; it is the empty-trie root only when that block has no
\* transactions.
C31_RootOfSubmittedBlock ==
  sub.push # 0 =>
    /\ sub.hash \in KnownHashes
    /\ sub.att.receipts_root = ReceiptsRootOfBlock(sub.hash)
    /\ sub.att.receipts_root = EmptyTrieRoot => BlockTxs(sub.hash) = <<>>

\* C32: the retry counter of RunWSValidator only grows: no connection made,
\* subscription accepted or push submitted gives budget back, every failed
\* attempt but a cancelled one costs one retry, and so at most RetryMax + 1
\* attempts are made in the lifetime of the Runner, however many pushes were
\* processed between the failures.
C32_RetriesOnlyGrow ==
  /\ [](pc # "start" =>
          /\ attempts <= retryMax + 1
          /\ retries <= attempts
          /\ attempts <= retries + 1)
  /\ [][ /\ retries' >= retries
         /\ attempts' > attempts /\ attempts >= 1 => retries = attempts
         /\ pc # "ret" => retries' = retries ]_vars

\* A push is submitted on the connection of a later attempt, and the retries
\* spent before it are still spent.
C32_Witness ==
  /\ status = "attested" /\ sub.sentOn = attempts
  /\ attempts >= 2 /\ retries = attempts - 1
  /\ Len(subs) >= 2

\* C33: SendDepositsConcurrently delivers exactly one DepositResult for every
\* item, and the channel is closed only after the last one has been delivered:
\* no worker sends on the closed channel and no result is lost.
C33_EveryResultDelivered ==
  /\ ~panicked
  /\ \A i \in 1 .. Len(delivered) : \A j \in 1 .. Len(delivered) :
       delivered[i] = delivered[j] => i = j
  /\ outDone => Len(delivered) = items

\* C34: a push identified by its hash (the chosen shape has no number that
\* parses) is resolved by hash: waitForBlockHashVisible is called for that
\* hash, no block-by-number query is made for the push, and the hash
\* submitted is the hash of the push.
C34_HashPushByHash ==
  cur.src = "hash" =>
    /\ pc \notin {"wait_num", "sleep_num"}
    /\ status = "processing" => branch = "hash" /\ hash = cur.hash
    /\ sub.push = cur.id => sub.hash = cur.hash

\* C35: when the shape the decoder takes carries a number that parses and a
\* well-formed hash, the identity is the number and the hash is dropped: line
\* 315 takes the number branch and nothing of the hash is handed on; a hash is
\* handed on only when the number of that shape is absent or does not parse.
ChosenNum == IF Yields(arg.aNum, arg.aHash) THEN arg.aNum ELSE arg.bNum
ChosenHash == IF Yields(arg.aNum, arg.aHash) THEN arg.aHash ELSE arg.bHash
C35_NumberBeforeHash ==
  (Called("DecodeHeader") /\ arg.kind = "obj") =>
    /\ (parseUint64JSON(ChosenNum).ok /\ ChosenHash.k = "hash") =>
         /\ res.out = [ok |-> TRUE, slot |-> parseUint64JSON(ChosenNum).v,
                       hash |-> ZeroHash, src |-> "number"]
         /\ BranchOf(res.out) = "number"
    /\ (res.out.ok /\ BranchOf(res.out) = "hash") =>
         /\ ~parseUint64JSON(ChosenNum).ok
         /\ res.out.hash = ChosenHash.v

\* Shape A names block 1 by number and carries the hash of block 0.
C35_Witness ==
  /\ Called("DecodeHeader")
  /\ arg.aNum = QuotedHex(1) /\ arg.aHash = [k |-> "hash", v |-> BlockHash(0)]
  /\ res.out = [ok |-> TRUE, slot |-> 1, hash |-> ZeroHash, src |-> "number"]

\* C36: parseUint64JSON returns neither a wrapped nor a truncated value: a
\* value it returns is the value of the number as written, which is not
\* negative and is below 2^UintBits; every other number gives an error.
Written == TrimSpace(arg.s)
WrittenHex == Len(Written) >= 2 /\ Written[1] = "0" /\ Written[2] \in {"x", "X"}
WrittenBody == IF WrittenHex THEN SubSeq(Written, 3, Len(Written)) ELSE Written
WrittenNegative == WrittenBody # <<>> /\ WrittenBody[1] = "-"
WrittenDigits ==
  IF WrittenBody # <<>> /\ WrittenBody[1] \in {"+", "-"} THEN Tail(WrittenBody)
  ELSE WrittenBody
C36_NeverWrapped ==
  (Called("parseUint64JSON") /\ res.out.ok) =>
    /\ ~WrittenNegative
    /\ ValueOf(WrittenDigits, IF WrittenHex THEN 16 ELSE 10) < UintLimit
    /\ res.out.v = ValueOf(WrittenDigits, IF WrittenHex THEN 16 ELSE 10)

\* What can become of a push that was read.
PushOutcomes == PushFailures \cup {"attested", "resolve_ctx", "root_ctx"}

\* C37 as stated: the processing of a push always ends and the Runner then
\* reads the transport again.
C37_PushEndsThenReads ==
  status = "processing" ~> pc = "read"

\* C37, amended: when every call returns and every timer fires, the
\* processing of a push ends, with SubmitVerification called once or with the
\* push abandoned and nothing submitted, and takes the Runner to the loop
\* head; from there it reads the transport again unless ctx is done by then,
\* in which case runOnce returns the cancellation error.
C37_PushEnds ==
  /\ status = "processing" ~> (pc = "loop" /\ status \in PushOutcomes)
  /\ [](status \in PushOutcomes =>
          Count(subs, cur.id) = (IF status \in {"attested", "submit_failed"} THEN 1 ELSE 0))
  /\ [][ (pc = "loop" /\ pc' # "loop") =>
           IF cancelled THEN pc' = "ret" /\ err' = "ctx" ELSE pc' = "read" ]_vars

\* A push was abandoned when its receipts wait timed out, and ctx is alive.
C37_Witness ==
  status = "root_timeout" /\ pc = "loop" /\ ~cancelled /\ Len(trace) = 2

\* The errors runOnce returns: lines 188, 202, 209, 212, 220 and 225.
RunOnceErrors == {"dial", "write", "subread", "subrpc", "ctx", "read"}

\* C38: RunWSValidator never returns a nil error.  What it returns is the
\* key-derivation error, raised before runOnce was called and so before any
\* connection was opened, or the cancellation error, returned only when ctx is
\* done, or the "max retries reached" error; and whenever runOnce has returned,
\* it has returned one of its errors, never nil.
C38_NeverNil ==
  /\ err # "nil"
  /\ (pc = "ret" => err \in RunOnceErrors)
  /\ result \in {"none", "derive", "ctx", "maxretries"}
  /\ (pc = "done" <=> result # "none")
  /\ (result = "derive" => attempts = 0 /\ conn = 0 /\ ~connOpen /\ err = "none")
  /\ (result = "ctx" => cancelled)
  /\ (result = "maxretries" => err \in RunOnceErrors)

\* runOnce left its loop with ctx.Err() on a connection that had served a
\* push, and RunWSValidator returned the cancellation error.
C38_Witness ==
  pc = "done" /\ result = "ctx" /\ err = "ctx" /\ conn = 1 /\ pushId = 1

\* A call of SendExitRequest that got as far as its first send has returned.
ExitSent ==
  /\ fn = "SendExitRequest" /\ res.returned
  /\ arg.before = NilError /\ arg.nonce1.err = NilError

\* C39: SendExitRequest sends first with the pending nonce; it sends a second
\* time exactly when the first send failed with an error of the nonce-too-low
\* class, then with a nonce strictly greater than the first; any other error of
\* the first send, and a failure of the second send, is what the call returns;
\* and it never sends more than twice.
C39_RetryOnce ==
  ExitSent =>
    LET sends == res.out.sends
    IN /\ Len(sends) \in {1, 2}
       /\ sends[1] = arg.nonce1.value
       /\ (Len(sends) = 2 <=> isNonceTooLow(arg.send1))
       /\ (Len(sends) = 2 => sends[2] > sends[1])
       /\ (arg.send1 # NilError /\ ~isNonceTooLow(arg.send1) => res.out.err = arg.send1)
       /\ (Len(sends) = 2 /\ arg.send2 # NilError => res.out.err = arg.send2)

\* ComputeWithdrawalCredentialsFromEth1 has returned.
WcReturned == fn = "ComputeWithdrawalCredentialsFromEth1" /\ res.returned
\* The text is the hexadecimal of an address: after an optional 0x, two
\* hexadecimal digits for each of its bytes.
IsAddressText(s) ==
  /\ Len(TrimPrefix0x(s)) = 2 * AddrBytes
  /\ Range(TrimPrefix0x(s)) \subseteq Range(HexChars) \cup Range(UpperHex)
AddressOf(s) == DecodeString(TrimPrefix0x(s)).bytes
\* 0x01 and the zero bytes up to the offset of the address.
WcHead == [i \in 1 .. AddrOffset |-> IF i = 1 THEN Eth1Prefix ELSE 0]

=============================================================================
